---- MODULE Spec2Model ----
(***************************************************************************)
(* A model of the oddcrawler crawl engine: the priority frontier with its  *)
(* host token buckets and failure backoff (crawler/frontier.py), the Tor   *)
(* connector's host blocklist (crawler/tor_connector.py), the fetcher      *)
(* (crawler/fetcher.py), the failure cache (runtime/failure_cache.py), the *)
(* runner step (runner.py) and the run loop (runtime/run_loop.py).         *)
(*                                                                         *)
(* Time is a discrete clock `now` (time.time() / datetime.now()); one tick *)
(* is one time unit and every duration of the settings is a whole number   *)
(* of ticks.  Token counts are floats in the code; the model stores them   *)
(* as whole numbers of 1/host_refill_seconds of a token (TokenUnit), which *)
(* is exact for whole-tick clocks.  All reads of the clock inside one call *)
(* see the same value.                                                     *)
(***************************************************************************)
EXTENDS Integers, FiniteSets, Sequences, TLC

\* ------------------------------------------------------------------------
\* Bounds of the model
\* ------------------------------------------------------------------------
MaxTime == 4
MaxExtend == 2
MaxRunTime == 2
MaxCrumbs == 2
MaxGraphPages == 2
MaxScoreCalls == 3
MaxBanditJobs == 2
MaxPulls == 2
MaxCrashes == 1
MaxFetchTime == 6
MaxFetchCalls == 2
MaxStreak == 3
MaxDeferrals == 2
MaxPopCalls == 2
MaxLiveTime == 9

None == "none"

\* urlsplit(url).netloc.lower() of the URLs of the model
Hosts == {"a.test", "b.onion"}
URLS == {"a1", "a2", "b1"}
HostOf(url) ==
    CASE url \in {"a1", "a2"} -> "a.test"
      [] url \in {"b1"} -> "b.onion"
      [] OTHER -> ""

\* an empty URL and a URL without a netloc are inputs the frontier ignores
BadURLS == {"", "nohost"}

\* FrontierSettings the model is checked under (durations in ticks).  In all
\* of them weight_host_budget is 1.0 and the other weights, depth_penalty and
\* cross_domain_bonus are 0.0 (the settings of test_failure_backoff_defers_host),
\* min_priority is 0.05 and max_priority is 1.0.
DefaultSettings ==
    [host_token_capacity |-> 1, host_refill_seconds |-> 2,
     host_penalty_seconds |-> 2, failure_cooldown_seconds |-> 3]

BurstSettings ==
    [host_token_capacity |-> 2, host_refill_seconds |-> 2,
     host_penalty_seconds |-> 1, failure_cooldown_seconds |-> 2]

SettingsChoices ==
    { DefaultSettings,
      BurstSettings,
      [host_token_capacity |-> 5, host_refill_seconds |-> 0,
       host_penalty_seconds |-> 0, failure_cooldown_seconds |-> 3] }

Max(a, b) == IF a >= b THEN a ELSE b
Min(a, b) == IF a <= b THEN a ELSE b

VARIABLES
    now,            \* the clock
    settings,       \* Frontier.settings
    heap,           \* Frontier._heap: set of jobs, popped smallest (priority, order) first
    delay_heap,     \* Frontier._delay_heap: entries (available_at, job); job.available_at
                    \* always equals the key of the entry and is not stored twice
    seen,           \* Frontier._seen
    order,          \* Frontier._order
    host_buckets,   \* Frontier._host_buckets: host -> bucket or NoBucket
    host_backoff,   \* Frontier._host_backoff: host -> time (0 when absent)
    inflight,       \* Frontier._inflight: set of jobs, at most one per URL
    last_pop,       \* history: what the last Pop returned and what it did to the bucket
    popped_at,      \* history: host -> time of the last Pop that returned one of its URLs
    blocklist,      \* TorConnector.blocklist: host -> BlockEntry or NoBlock
    blocklist_file, \* the content of blocklist.json
    host_failures,  \* TorConnector.host_failures: host -> count (0 when absent)
    host_last_request, \* TorConnector.host_last_request: host -> time (0 when absent)
    illegal_hosts,  \* history: the hosts record_illegal was called for
    entries,        \* FailureCache._entries: url -> FailureEntry or NoEntry
    entries_file,   \* the content of failures.json
    dirty,          \* FailureCache._dirty
    expiry_seconds, \* FailureCache.expiry_seconds (NoExpiry for None)
    last_skip,      \* history: the last should_skip call, the entry it found and its result
    robots_cache,   \* Fetcher.robots_cache: the hosts whose robots.txt was requested
    raw_store,      \* the URLs with a raw response in storage
    excerpt_store,  \* the URLs with an observation excerpt in storage
    graph_scores,   \* the URLs GraphFeatureManager.record_score was called for
    last_step,      \* history: what the last iteration of the run loop did
    last_seeds,     \* history: what the last seeding did
    failure_hosts,  \* RunLoop._failure_hosts: host -> count
    loop,           \* RunLoop.run: where the call is, processed, max_pages, _stop_requested,
                    \* _processed_since_checkpoint, checkpoint_interval
    telemetry,      \* the content of telemetry.jsonl: how many lines of each kind
    metrics,        \* RunLoop.metrics
    metrics_file,   \* the content of metrics.json
    summary_file,   \* the content of reports/summary.json
    crashes,        \* how often the process was killed
    cascade_config, \* TriageCascade.config
    simhash_seen,   \* TriageCascade._simhash_seen
    last_decision,  \* history: the CascadeDecision the last evaluate() returned
    thresholds,     \* ScoringEngine.thresholds
    last_scored,    \* history: the last ScoringEngine.decide call and its ScoreDecision
    storage_config, \* the dangerous_breadcrumbs section of TriageOrchestrator.config
    breadcrumb_file, \* the breadcrumb records written, in the order of writing
    last_handled,   \* history: the last handle_decision call and what it did
    host_maps,      \* Frontier._host_stats, _host_hints, _host_cascade_stats, _total_pulls:
                    \* they steer priorities through weights that are 0 here
    frontier_file,  \* the content of state/frontier.json (NoFile when absent)
    popped_before_restart, \* history: the URLs pop() had handed out when a process ended
    last_restore,   \* history: the state the last from_state() was given and the
                    \* export_state() of the frontier it built
    graph,          \* GraphStore.graph: the nodes and the edges with their attributes
    graph_file,     \* the content of link_graph.json
    pagerank_dirty, \* GraphStore._pagerank_dirty
    link_log,       \* history: how often record_page was given a link s -> t
    score_log,      \* history: the update_score calls per URL, in call order
    page_log,       \* history: per URL the number of record_page calls and the
                    \* fetched_at of the first and of the last one
    bandit,         \* a Frontier with bandit priorities: settings, _host_stats,
                    \* _total_pulls, _heap, _order
    last_bandit_pop, \* history: what the last pop of that frontier chose from
    canon,          \* history: the last canonicalize_url call, its result and the
                    \* result of canonicalize_url on that result
    fetcher,        \* the Fetcher: its configuration, last_request_at, the position
                    \* of the fetch call under way, and the history of that call
    cascade_log,    \* history of the evaluate calls on a TriageCascade exercised
                    \* on a few pages: the fingerprints of the evaluations that
                    \* reached the simhash stage, one of the pages evaluated so far,
                    \* and what the last call met
    pop_call,       \* a call of Frontier.pop followed pass by pass of its loop:
                    \* whether it is under way, what it returned, and how often
                    \* it has deferred each URL; for a frontier that is polled,
                    \* the URLs pop has returned so far
    tor_log         \* history of the calls on a TorConnector exercised on its own:
                    \* per host the record_failure calls since the last
                    \* record_success, the same since the last block as well, the
                    \* end of the last block for failures, and the last call

frontierVars == <<heap, delay_heap, seen, order, host_buckets, host_backoff, inflight>>
historyVars == <<last_pop, popped_at>>
torVars == <<blocklist, blocklist_file, host_failures, host_last_request, illegal_hosts>>
cacheVars == <<entries, entries_file, dirty, expiry_seconds, last_skip>>
reportVars == <<telemetry, metrics, metrics_file, summary_file, crashes>>
runVars == <<robots_cache, raw_store, excerpt_store, graph_scores, last_step, last_seeds,
            failure_hosts, loop, reportVars>>
cascadeVars == <<cascade_config, simhash_seen, last_decision>>
scoringVars == <<thresholds, last_scored>>
crumbVars == <<storage_config, breadcrumb_file, last_handled>>
persistVars == <<host_maps, frontier_file, popped_before_restart, last_restore>>
graphVars == <<graph, graph_file, pagerank_dirty, link_log, score_log, page_log>>
banditVars == <<bandit, last_bandit_pop>>
canonVars == <<canon>>
logVars == <<tor_log, cascade_log, pop_call>>
fetchVars == <<fetcher, logVars>>
torComponentVars == <<cascadeVars, scoringVars, crumbVars, persistVars, graphVars, banditVars,
                      canonVars, fetcher, cascade_log, pop_call>>
componentVars == <<cascadeVars, scoringVars, crumbVars, persistVars, graphVars, banditVars,
                   canonVars, fetchVars>>
vars == <<now, settings, frontierVars, historyVars, torVars, cacheVars, runVars, componentVars>>

\* ------------------------------------------------------------------------
\* Frontier helpers
\* ------------------------------------------------------------------------
\* one token, in the unit the model stores token counts in
TokenUnit(s) == IF s.host_refill_seconds > 0 THEN s.host_refill_seconds ELSE 1

Capacity(s) == s.host_token_capacity * TokenUnit(s)

\* a host without an entry in _host_buckets
NoBucket == [present |-> FALSE, tokens |-> 0, updated_at |-> 0]

Bucket(tokens, t) == [present |-> TRUE, tokens |-> tokens, updated_at |-> t]

EnsureBucket(buckets, s, host, t) ==
    IF ~buckets[host].present
    THEN [buckets EXCEPT ![host] = Bucket(Capacity(s), t)]
    ELSE buckets

\* RefillTokens without the clamp to the capacity
RefillTokensUncapped(buckets, backoff, s, host, t) ==
    LET bs == EnsureBucket(buckets, s, host, t)
        bucket == bs[host]
        elapsed == Max(0, t - bucket.updated_at)
    IN  IF backoff[host] > t
        THEN [bs EXCEPT ![host] = Bucket(0, t)]
        ELSE IF s.host_refill_seconds <= 0
        THEN [bs EXCEPT ![host] = Bucket(Capacity(s), t)]
        ELSE IF elapsed <= 0
        THEN bs
        ELSE [bs EXCEPT ![host] = Bucket(bucket.tokens + elapsed, t)]

RefillTokens(buckets, backoff, s, host, t) ==
    LET bs == EnsureBucket(buckets, s, host, t)
        bucket == bs[host]
        elapsed == Max(0, t - bucket.updated_at)
    IN  IF backoff[host] > t
        THEN [bs EXCEPT ![host] = Bucket(0, t)]
        ELSE IF s.host_refill_seconds <= 0
        THEN [bs EXCEPT ![host] = Bucket(Capacity(s), t)]
        ELSE IF elapsed <= 0
        THEN bs
        ELSE [bs EXCEPT ![host] = Bucket(Min(Capacity(s), bucket.tokens + elapsed), t)]

\* ConsumeHostToken that never consults the backoff map
ConsumeHostTokenNoBackoff(buckets, backoff, s, host, t) ==
    LET bs == RefillTokens(buckets, [h \in Hosts |-> 0], s, host, t)
    IN  IF bs[host].tokens >= TokenUnit(s)
        THEN [ok |-> TRUE,
              buckets |-> [bs EXCEPT ![host] = Bucket(bs[host].tokens - TokenUnit(s), t)],
              refilled |-> bs[host].tokens]
        ELSE [ok |-> FALSE, buckets |-> bs, refilled |-> bs[host].tokens]

\* returns the new buckets, whether a token was consumed and the refilled count
ConsumeHostToken(buckets, backoff, s, host, t) ==
    LET bs == RefillTokens(buckets, backoff, s, host, t)
    IN  IF backoff[host] > t
        THEN [ok |-> FALSE, buckets |-> bs, refilled |-> bs[host].tokens]
        ELSE IF bs[host].tokens >= TokenUnit(s)
        THEN [ok |-> TRUE,
              buckets |-> [bs EXCEPT ![host] = Bucket(bs[host].tokens - TokenUnit(s), t)],
              refilled |-> bs[host].tokens]
        ELSE [ok |-> FALSE, buckets |-> bs, refilled |-> bs[host].tokens]

\* deficit * host_refill_seconds is (TokenUnit - tokens) ticks when the refill
\* period is positive and 0 otherwise
NextAvailableTime(buckets, backoff, s, host, t) ==
    LET bs == RefillTokens(buckets, backoff, s, host, t)
        deficit == Max(0, TokenUnit(s) - bs[host].tokens)
        wait0 == IF s.host_refill_seconds > 0 THEN deficit ELSE 0
        wait == IF backoff[host] > t + wait0 THEN backoff[host] - t ELSE wait0
    IN  [buckets |-> bs, ready_at |-> t + Max(wait, s.host_penalty_seconds)]

\* HeapTop that takes the job enqueued last among those of equal priority
HeapTopLastIn(h) ==
    CHOOSE j \in h : \A k \in h :
        \/ j.priority < k.priority
        \/ (j.priority = k.priority /\ j.order >= k.order)

\* the smallest job of a heap under FrontierJob's ordering (priority, order)
HeapTop(h) ==
    CHOOSE j \in h : \A k \in h :
        \/ j.priority < k.priority
        \/ (j.priority = k.priority /\ j.order <= k.order)

\* _promote_ready_jobs that leaves every job on the delay heap
PromoteReadyJobsNever(st, t) == st

PromoteReadyJobs(st, t) ==
    [st EXCEPT !.heap = st.heap \cup {d.job : d \in {e \in st.delay_heap : e.available_at <= t}},
               !.delay_heap = {d \in st.delay_heap : d.available_at > t}]

PutInflight(fl, job) == {j \in fl : j.url # job.url} \cup {job}

\* the while loop of Frontier.pop
RECURSIVE PopLoop(_, _, _)
PopLoop(st, s, t) ==
    IF st.heap = {}
    THEN [st |-> st, url |-> None, refilled |-> 0]
    ELSE LET job == HeapTop(st.heap)
             rest == [st EXCEPT !.heap = st.heap \ {job}]
         IN  IF job.host = ""
             THEN [st |-> [rest EXCEPT !.inflight = PutInflight(rest.inflight, job)],
                   url |-> job.url, refilled |-> 0]
             ELSE LET c == ConsumeHostToken(rest.host_buckets, rest.host_backoff, s, job.host, t)
                      n == NextAvailableTime(c.buckets, rest.host_backoff, s, job.host, t)
                  IN  IF c.ok
                      THEN [st |-> [rest EXCEPT !.host_buckets = c.buckets,
                                                !.inflight = PutInflight(rest.inflight, job)],
                            url |-> job.url, refilled |-> c.refilled]
                      ELSE PopLoop(PromoteReadyJobs(
                                     [rest EXCEPT !.host_buckets = n.buckets,
                                                  !.delay_heap = rest.delay_heap \cup
                                                      {[available_at |-> n.ready_at, job |-> job]}],
                                     t), s, t)

\* one pass of the while loop of Frontier.pop: the state it leaves, whether
\* pop returns, the URL it returns and the URL it deferred
PopStep(st, s, t) ==
    IF st.heap = {}
    THEN [st |-> st, done |-> TRUE, url |-> None, deferred |-> None]
    ELSE LET job == HeapTop(st.heap)
             rest == [st EXCEPT !.heap = st.heap \ {job}]
         IN  IF job.host = ""
             THEN [st |-> [rest EXCEPT !.inflight = PutInflight(rest.inflight, job)],
                   done |-> TRUE, url |-> job.url, deferred |-> None]
             ELSE LET c == ConsumeHostToken(rest.host_buckets, rest.host_backoff, s, job.host, t)
                      n == NextAvailableTime(c.buckets, rest.host_backoff, s, job.host, t)
                  IN  IF c.ok
                      THEN [st |-> [rest EXCEPT !.host_buckets = c.buckets,
                                                !.inflight = PutInflight(rest.inflight, job)],
                            done |-> TRUE, url |-> job.url, deferred |-> None]
                      ELSE [st |-> PromoteReadyJobs(
                                     [rest EXCEPT !.host_buckets = n.buckets,
                                                  !.delay_heap = rest.delay_heap \cup
                                                      {[available_at |-> n.ready_at, job |-> job]}],
                                     t),
                            done |-> FALSE, url |-> None, deferred |-> job.url]

FrontierState ==
    [heap |-> heap, delay_heap |-> delay_heap, host_buckets |-> host_buckets,
     host_backoff |-> host_backoff, inflight |-> inflight]

FrontierPop(st, s, t) == PopLoop(PromoteReadyJobs(st, t), s, t)

\* priorities are stored in units of 1/(20 * Capacity): min_priority = 0.05 is
\* Capacity units and max_priority = 1.0 is 20 * Capacity units
MinPriority(s) == Capacity(s)
MaxPriority(s) == 20 * Capacity(s)

\* the explicit priority passed to add(): 0.5
ExplicitPriorities(s) == {MaxPriority(s) \div 2}

\* _host_budget_score on refilled buckets: tokens / max(capacity, 1.0), 0.0 in backoff
HostBudgetScore(buckets, backoff, s, host, t) ==
    IF backoff[host] > t
    THEN 0
    ELSE IF ~buckets[host].present
    THEN MaxPriority(s)
    ELSE Max(0, Min(MaxPriority(s), 20 * buckets[host].tokens))

\* _compute_priority with weight_host_budget = 1.0 and the other terms 0.0
ComputePriority(buckets, backoff, s, host, t) ==
    HostBudgetScore(RefillTokens(buckets, backoff, s, host, t), backoff, s, host, t)

\* FrontierAdd without the check of the seen-set
FrontierAddUnseen(st, s, t, url, prio) ==
    IF url = "" \/ HostOf(url) = ""
    THEN st
    ELSE [st EXCEPT
            !.seen = st.seen \cup {url},
            !.heap = st.heap \cup
                {[priority |-> 0 - Capacity(s), order |-> st.order, host |-> HostOf(url),
                  url |-> url]},
            !.order = st.order + 1]

\* add() called without a priority
NoPriority == 0 - 1

\* an add() that lets in again a URL that is no longer in the heap
FrontierAddAgain(st, s, t, url, prio) ==
    IF url = "" \/ url \in {j.url : j \in st.heap} \/ HostOf(url) = ""
    THEN st
    ELSE [st EXCEPT
            !.seen = st.seen \cup {url},
            !.heap = st.heap \cup
                {[priority |-> 0 - MaxPriority(s), order |-> st.order, host |-> HostOf(url),
                  url |-> url]},
            !.order = st.order + 1]

\* Frontier.add on the pieces of the state it touches; prio = NoPriority when no
\* explicit priority is passed and _compute_priority refills the host bucket
FrontierAdd(st, s, t, url, prio) ==
    IF url = "" \/ url \in st.seen \/ HostOf(url) = ""
    THEN st
    ELSE LET host == HostOf(url)
             computed_priority ==
                 IF prio # NoPriority THEN prio
                 ELSE ComputePriority(st.host_buckets, st.host_backoff, s, host, t)
         IN  [st EXCEPT
                !.seen = st.seen \cup {url},
                !.host_buckets = IF prio = NoPriority
                                 THEN RefillTokens(st.host_buckets, st.host_backoff, s, host, t)
                                 ELSE st.host_buckets,
                !.heap = st.heap \cup
                    {[priority |-> 0 - Max(MinPriority(s), Min(MaxPriority(s), computed_priority)),
                      order |-> st.order, host |-> host, url |-> url]},
                !.order = st.order + 1]

AddState ==
    [heap |-> heap, seen |-> seen, order |-> order, host_buckets |-> host_buckets,
     host_backoff |-> host_backoff]

RECURSIVE FrontierExtend(_, _, _, _)
FrontierExtend(st, s, t, items) ==
    IF items = <<>>
    THEN st
    ELSE FrontierExtend(FrontierAdd(st, s, t, Head(items), NoPriority), s, t, Tail(items))

\* ------------------------------------------------------------------------
\* Tor connector: the host blocklist
\* ------------------------------------------------------------------------
\* the settings the TorConnector is constructed with, the two durations in ticks
TorSettings ==
    [failure_block_minutes |-> 2, max_failures_per_host |-> 2, illegal_block_days |-> 3]

NoBlock == [present |-> FALSE, blocked_until |-> 0, reason |-> ""]

\* BlockEntry.is_active for an entry with a blocked_until time
IsActive(entry, t) == entry.blocked_until > t

\* _block_host; the result is also what _persist_blocklist writes
BlockHost(bl, host, reason, until) ==
    [bl EXCEPT ![host] = [present |-> TRUE, blocked_until |-> until, reason |-> reason]]

\* _ensure_not_blocked: the exception raised ("" for none) and the blocklist left
EnsureNotBlocked(bl, host, t) ==
    IF ~bl[host].present
    THEN [raises |-> "", blocklist |-> bl, persisted |-> FALSE]
    ELSE IF IsActive(bl[host], t)
    THEN [raises |-> IF bl[host].reason = "illegal" THEN "TorBlockedHost"
                     ELSE "TorBudgetExceeded",
          blocklist |-> bl, persisted |-> FALSE]
    ELSE [raises |-> "", blocklist |-> [bl EXCEPT ![host] = NoBlock], persisted |-> TRUE]

\* a record_failure that blocks the host one failure later
TorFailureLate(bl, failures, host, t) ==
    IF failures[host] + 1 > TorSettings.max_failures_per_host
    THEN [blocklist |-> BlockHost(bl, host, "failure", t + TorSettings.failure_block_minutes),
          host_failures |-> [failures EXCEPT ![host] = 0], persisted |-> TRUE]
    ELSE [blocklist |-> bl,
          host_failures |-> [failures EXCEPT ![host] = failures[host] + 1],
          persisted |-> FALSE]

\* TorConnector.record_failure: the blocklist and the failure counts it leaves
TorFailure(bl, failures, host, t) ==
    IF failures[host] + 1 >= TorSettings.max_failures_per_host
    THEN [blocklist |-> BlockHost(bl, host, "failure", t + TorSettings.failure_block_minutes),
          host_failures |-> [failures EXCEPT ![host] = 0], persisted |-> TRUE]
    ELSE [blocklist |-> bl,
          host_failures |-> [failures EXCEPT ![host] = failures[host] + 1],
          persisted |-> FALSE]

\* TorConnector.record_illegal
TorIllegal(bl, host, t) == BlockHost(bl, host, "illegal", t + TorSettings.illegal_block_days)

\* _load_blocklist: only the entries active at load time are kept
LoadBlocklist(file, t) ==
    [h \in Hosts |-> IF file[h].present /\ IsActive(file[h], t) THEN file[h] ELSE NoBlock]

TorInit ==
    /\ blocklist = [h \in Hosts |-> NoBlock]
    /\ blocklist_file = [h \in Hosts |-> NoBlock]
    /\ host_failures = [h \in Hosts |-> 0]
    /\ host_last_request = [h \in Hosts |-> 0]
    /\ illegal_hosts = {}

\* ------------------------------------------------------------------------
\* Failure cache
\* ------------------------------------------------------------------------
\* expiry_seconds = None
NoExpiry == 0 - 1

\* the expiry_seconds the model is checked under, in ticks
ExpiryChoices == {NoExpiry, 2}

\* skip_statuses
SkipStatuses == {404}

\* the statuses recorded with a failure; NoStatus stands for None
NoStatus == 0 - 1
Statuses == {NoStatus, 404, 500}

\* a FailureEntry: reason, first_recorded_at and count are never read back
NoEntry == [present |-> FALSE, status |-> NoStatus, last_recorded_at |-> 0]

\* _expired with the bound included: an entry expires at last_recorded_at + expiry
ExpiredAtBound(entry, expiry, t) ==
    IF expiry = NoExpiry
    THEN FALSE
    ELSE entry.last_recorded_at + expiry <= t

\* FailureCache._expired
Expired(entry, expiry, t) ==
    IF expiry = NoExpiry
    THEN FALSE
    ELSE entry.last_recorded_at + expiry < t

\* FailureCache.should_skip: the result and the entries left (an expired entry is dropped)
ShouldSkip(es, expiry, url, t) ==
    IF url \notin DOMAIN es \/ ~es[url].present
    THEN [skip |-> FALSE, entries |-> es]
    ELSE IF Expired(es[url], expiry, t)
    THEN [skip |-> FALSE, entries |-> [es EXCEPT ![url] = NoEntry]]
    ELSE IF es[url].status = NoStatus
    THEN [skip |-> FALSE, entries |-> es]
    ELSE [skip |-> es[url].status \in SkipStatuses, entries |-> es]

\* FailureCache.record
CacheRecorded(es, url, status, t) ==
    [es EXCEPT ![url] = [present |-> TRUE, status |-> status, last_recorded_at |-> t]]

\* FailureCache.cleanup, run by save()
CacheCleanup(es, expiry, t) ==
    [u \in DOMAIN es |-> IF es[u].present /\ Expired(es[u], expiry, t) THEN NoEntry ELSE es[u]]

NoSkipCall == [url |-> "", at |-> 0, entry |-> NoEntry, result |-> FALSE]

\* FailureCache._load: entries without a URL and expired entries are dropped
LoadEntries(file, expiry, t) ==
    [u \in DOMAIN file |-> IF file[u].present /\ ~Expired(file[u], expiry, t)
                           THEN file[u] ELSE NoEntry]

CacheInit ==
    /\ entries = [u \in URLS |-> NoEntry]
    /\ entries_file = [u \in URLS |-> NoEntry]
    /\ dirty = FALSE
    /\ last_skip = NoSkipCall

\* ------------------------------------------------------------------------
\* Fetcher, runner and run loop
\* ------------------------------------------------------------------------
\* Fetcher.retries
Retries == 1

\* should_route with route_onion_only and no route_domains: the .onion hosts
ShouldRoute(host) == host \in {"b.onion"}

\* the host has an active entry whose reason starts with "illegal"
IllegalActive(bl, host, t) ==
    bl[host].present /\ bl[host].reason = "illegal" /\ IsActive(bl[host], t)

\* record_failure called n times in the retry loop of Fetcher.fetch
RECURSIVE TorFailures(_, _, _, _)
TorFailures(tor, host, t, n) ==
    IF n = 0
    THEN tor
    ELSE LET r == TorFailure(tor.blocklist, tor.host_failures, host, t)
         IN  TorFailures([blocklist |-> r.blocklist, host_failures |-> r.host_failures,
                          persisted |-> tor.persisted \/ r.persisted], host, t, n - 1)

\* the errors the last attempt of a fetch ends with
FetchErrors == {"http404", "http500", "neterr"}

\* how the attempts of a fetch go: n_fail attempts fail before one succeeds,
\* err is the error of the last attempt when none succeeds
Attempts ==
    {a \in [n_fail : 0..(Retries + 1), err : FetchErrors] :
        a.n_fail <= Retries => a.err = "neterr"}

\* Fetcher.fetch(url): allowed is the answer of robots.txt for the URL, n_fail
\* the number of attempts that fail before one succeeds, err the error of the
\* last attempt when none does
Fetch(url, robots, bl, failures, last_request, t, allowed, n_fail, err) ==
    LET host == HostOf(url)
        robots_request == host \notin robots
        robots_blocked == robots_request /\ IllegalActive(bl, host, t)
        routed == ShouldRoute(host)
        e == IF routed THEN EnsureNotBlocked(bl, host, t)
             ELSE [raises |-> "", blocklist |-> bl, persisted |-> FALSE]
        success == n_fail <= Retries
        tf == IF routed
              THEN TorFailures([blocklist |-> e.blocklist, host_failures |-> failures,
                                persisted |-> e.persisted], host, t, Min(n_fail, Retries + 1))
              ELSE [blocklist |-> bl, host_failures |-> failures, persisted |-> FALSE]
        stopped == [robots_cache |-> robots \cup {host}, blocklist |-> bl,
                    host_failures |-> failures, host_last_request |-> last_request,
                    persisted |-> FALSE, gets |-> 0, dispatched_blocked |-> robots_blocked]
    IN  IF ~allowed
        THEN [outcome |-> "robots"] @@ stopped
        ELSE IF e.raises # ""
        THEN [outcome |-> "tor_blocked"] @@ stopped
        ELSE [outcome |-> IF success THEN "ok" ELSE err,
              robots_cache |-> robots \cup {host},
              blocklist |-> tf.blocklist,
              host_failures |-> IF routed /\ success
                                THEN [tf.host_failures EXCEPT ![host] = 0]
                                ELSE tf.host_failures,
              host_last_request |-> IF routed /\ success
                                    THEN [last_request EXCEPT ![host] = t]
                                    ELSE last_request,
              persisted |-> tf.persisted,
              gets |-> Min(n_fail, Retries) + 1,
              dispatched_blocked |-> robots_blocked \/ IllegalActive(e.blocklist, host, t)]

\* step() returns None before it reaches the fetcher
NotFetched(robots, bl, failures, last_request) ==
    [outcome |-> "empty", robots_cache |-> robots, blocklist |-> bl,
     host_failures |-> failures, host_last_request |-> last_request,
     persisted |-> FALSE, gets |-> 0, dispatched_blocked |-> FALSE]

RECURSIVE RunnerPop(_, _, _, _, _)

\* the loop of OddcrawlerRunner.step without the question to the failure cache
RunnerPopUnchecked(st, es, expiry, s, t) ==
    LET r == FrontierPop(st, s, t)
    IN  [st |-> r.st, entries |-> es, url |-> r.url, skipped |-> {}]

\* the loop of OddcrawlerRunner.step: pop until the frontier is empty or a URL
\* the failure cache does not skip comes out
RunnerPop(st, es, expiry, s, t) ==
    LET r == FrontierPop(st, s, t)
        k == ShouldSkip(es, expiry, r.url, t)
    IN  IF r.url = None
        THEN [st |-> r.st, entries |-> es, url |-> None, skipped |-> {}]
        ELSE IF k.skip
        THEN LET n == RunnerPop(r.st, k.entries, expiry, s, t)
             IN  [n EXCEPT !.skipped = n.skipped \cup {r.url}]
        ELSE [st |-> r.st, entries |-> k.entries, url |-> r.url, skipped |-> {}]

\* scores in hundredths; ScoringEngine.decide with the default thresholds
Thresholds == [persist |-> 35, llm_gate |-> 60]
Scores == {20, 50, 80}

Decide(score) ==
    IF score >= Thresholds.llm_gate THEN "llm"
    ELSE IF score >= Thresholds.persist THEN "persist"
    ELSE "skip"

\* a fetched page: whether the illegal scan matches its body, whether the
\* cascade skips it, whether the illegal scan matches its extracted text, and
\* the score the scoring engine gives it
Pages ==
    { [body_illegal |-> TRUE, cascade_skip |-> FALSE, text_illegal |-> TRUE, score |-> 20],
      [body_illegal |-> FALSE, cascade_skip |-> TRUE, text_illegal |-> FALSE, score |-> 20],
      [body_illegal |-> FALSE, cascade_skip |-> FALSE, text_illegal |-> TRUE, score |-> 20] }
    \cup {[body_illegal |-> FALSE, cascade_skip |-> FALSE, text_illegal |-> FALSE,
            score |-> sc] : sc \in Scores}

\* the branch of OddcrawlerRunner.step a fetched page ends in
PageKind(page) ==
    IF page.body_illegal THEN "illegal_pre"
    ELSE IF page.cascade_skip THEN "cascade_skip"
    ELSE IF page.text_illegal THEN "illegal_post"
    ELSE "scored"

\* the branches that return a RunnerResult
ResultKinds == {"illegal_pre", "cascade_skip", "illegal_post", "scored"}

\* the score of the step's decision
DecisionScore(kind, page) == IF kind = "scored" THEN page.score ELSE 0

\* the action of the step's decision
DecisionAction(kind, page) == IF kind = "scored" THEN Decide(page.score) ELSE "skip"

\* pipeline.record_fetch placed ahead of the illegal scans
WritesRawBeforeScan(kind) == kind \in ResultKinds

\* pipeline.record_fetch runs
WritesRaw(kind) == kind = "scored"

\* graph_manager.record_score runs
UpdatesGraph(kind) == kind = "scored"

\* the excerpt written for a page the cascade skipped as well
WritesExcerptOfSkipped(kind) == kind \in {"cascade_skip", "scored"}

\* pipeline.handle_scored_observation runs (write_observation_excerpt)
WritesExcerpt(kind) == kind = "scored"

\* the cascade_skip argument of frontier.record_feedback: None before the
\* cascade ran, cascade_decision.should_skip afterwards
FeedbackCascadeSkip(kind) ==
    IF kind = "illegal_pre" THEN None
    ELSE IF kind = "cascade_skip" THEN "true"
    ELSE "false"

\* tor_connector.record_illegal runs
RecordsIllegal(kind) == kind = "illegal_post"

\* the exceptions RunLoop.run answers with frontier.record_failure
ReportsFailure(kind) == kind \in {"http404", "http500"}

\* the failure cache fed with server errors instead of 404s
CachesFailureServerError(kind) == kind = "http500"

\* the failure cache records the failure (RunLoop.run, status 404)
CachesFailure(kind) == kind = "http404"

NoStep ==
    [kind |-> "", url |-> None, action |-> "", score |-> 0, feedback |-> 0 - 1,
     raw |-> FALSE, excerpt |-> FALSE, graph |-> FALSE, skipped |-> {}, cached |-> FALSE,
     dispatched_blocked |-> FALSE, listed |-> FALSE, event |-> "",
     cache_status |-> NoStatus, counted |-> 0, in_backoff |-> FALSE, inflight |-> FALSE,
     running |-> FALSE, feedback_action |-> "", feedback_cascade |-> None,
     events |-> {}, cache_grew |-> FALSE, checkpointed |-> FALSE]

\* max_pages = None
NoLimit == 0 - 1

\* the max_pages run() is called with
MaxPagesChoices == {NoLimit, 2}

\* RunLoop.__init__ with the default checkpoint_interval, run() not yet
\* called: _stop_requested is False, _processed_since_checkpoint is 0
NewLoop ==
    [phase |-> "new", processed |-> 0, max_pages |-> NoLimit, stop_requested |-> FALSE,
     exit |-> "", since_checkpoint |-> 0, checkpoint_interval |-> 25]

\* a loop condition that does not look at _stop_requested
LoopGoesOnIgnoringStop(l) ==
    l.max_pages = NoLimit \/ l.processed < l.max_pages

\* the condition of the while loop of run()
LoopGoesOn(l) ==
    ~l.stop_requested /\ (l.max_pages = NoLimit \/ l.processed < l.max_pages)

\* ------------------------------------------------------------------------
\* Triage cascade (agents/cascade.py)
\* Ratios, densities and scores are in hundredths; content lengths are
\* scaled down; classifier weights are in hundredths, so the classifier
\* score is in units of 1/10000
\* ------------------------------------------------------------------------
\* classifier_logit: logistic(score) < classifier_threshold (0.35) exactly
\* when score < ln(0.35 / 0.65) = -0.6190...
CascadeDefaults ==
    [ min_content_length |-> 2,
      max_content_length |-> 4,
      max_script_ratio |-> 55,
      max_anchor_ratio |-> 65,
      min_text_density |-> 2,
      boring_keywords |-> {"insurance", "mortgage"},
      allowed_content_types |-> {"text/html", "application/xhtml+xml"},
      simhash_enabled |-> TRUE,
      classifier_weights |-> [bias |-> 0 - 159, text_density |-> 29, retro_score |-> 4,
                              script_ratio |-> 0 - 35, anchor_ratio |-> 75,
                              token_ratio |-> 301, odd_keyword |-> 89],
      classifier_logit |-> 0 - 6190,
      retro_override_score |-> 30,
      density_token_override |-> 40,
      density_anchor_override |-> 35,
      density_skip_token_cap |-> 15 ]

\* the configurations TriageCascade.__init__ is given
CascadeConfigs ==
    { CascadeDefaults,
      [CascadeDefaults EXCEPT !.simhash_enabled = FALSE],
      [CascadeDefaults EXCEPT !.boring_keywords = {}],
      [CascadeDefaults EXCEPT !.allowed_content_types = {}] }

\* a reason is the sequence of the parts of the text; no reason (None) is the
\* empty sequence
NoReason == <<>>

\* CascadeStageResult, without the metrics
StageResult(stage, status, reason) == [stage |-> stage, status |-> status, reason |-> reason]

\* _stage_head: False after a skip, True after a pass
StageHead(cfg, page, stages) ==
    IF /\ cfg.allowed_content_types # {}
       /\ page.content_type # ""
       /\ page.content_type \notin cfg.allowed_content_types
    THEN [ok |-> FALSE,
          stages |-> Append(stages, StageResult("head", "skip", <<"content-type:", page.content_type>>))]
    ELSE IF page.content_length < cfg.min_content_length
    THEN [ok |-> FALSE,
          stages |-> Append(stages, StageResult("head", "skip", <<"content-length<">>))]
    ELSE IF page.content_length > cfg.max_content_length
    THEN [ok |-> FALSE,
          stages |-> Append(stages, StageResult("head", "skip", <<"content-length>">>))]
    ELSE [ok |-> TRUE, stages |-> Append(stages, StageResult("head", "pass", NoReason))]

\* _stage_snippet: None (ok false) after a skip, the snippet after a pass
StageSnippet(cfg, page, stages) ==
    IF page.body = "missing"
    THEN [ok |-> FALSE, stages |-> Append(stages, StageResult("snippet", "skip", <<"body-missing">>))]
    ELSE IF page.body = "blank"
    THEN [ok |-> FALSE, stages |-> Append(stages, StageResult("snippet", "skip", <<"empty-snippet">>))]
    ELSE [ok |-> TRUE, stages |-> Append(stages, StageResult("snippet", "pass", NoReason))]

\* the override _stage_structure finds for a page of low text density
DensityOverride(cfg, page) ==
    IF page.text_density < cfg.min_text_density
    THEN IF page.token_count >= cfg.density_token_override THEN "token"
         ELSE IF page.retro_score >= cfg.retro_override_score THEN "retro"
         ELSE IF page.anchor_ratio >= cfg.density_anchor_override THEN "anchor"
         ELSE IF page.odd_keyword THEN "keyword"
         ELSE None
    ELSE None

\* _stage_structure: None (ok false) after a skip, the metrics after a pass
\* or a warning
StageStructure(cfg, page, stages) ==
    LET low_density == page.text_density < cfg.min_text_density
        override == DensityOverride(cfg, page)
    IN  IF page.script_ratio > cfg.max_script_ratio
        THEN [ok |-> FALSE,
              stages |-> Append(stages, StageResult("structure", "skip", <<"script-ratio>">>))]
        ELSE IF page.anchor_ratio > cfg.max_anchor_ratio
        THEN [ok |-> FALSE,
              stages |-> Append(stages, StageResult("structure", "skip", <<"anchor-ratio>">>))]
        ELSE IF low_density /\ override = None /\ page.token_count <= cfg.density_skip_token_cap
        THEN [ok |-> FALSE,
              stages |-> Append(stages, StageResult("structure", "skip", <<"text-density<">>))]
        ELSE IF low_density
        THEN [ok |-> TRUE,
              stages |-> Append(stages,
                            StageResult("structure", "warn",
                                        <<"text-density<", "-override:",
                                          IF override = None THEN "low_density" ELSE override>>))]
        ELSE [ok |-> TRUE, stages |-> Append(stages, StageResult("structure", "pass", NoReason))]

\* _stage_keywords: the first configured keyword found in the snippet skips
StageKeywords(cfg, page, stages) ==
    LET found == cfg.boring_keywords \cap page.words
    IN  IF found # {}
        THEN [ok |-> FALSE,
              stages |-> Append(stages,
                            StageResult("keywords", "skip",
                                        <<"keyword:", CHOOSE k \in found : TRUE>>))]
        ELSE [ok |-> TRUE, stages |-> Append(stages, StageResult("keywords", "pass", NoReason))]

\* a simhash stage that records the duplicate and lets the cascade go on
StageSimhashNoStop(cfg, page, stages, fingerprints) ==
    IF ~cfg.simhash_enabled
    THEN [ok |-> TRUE, stages |-> Append(stages, StageResult("simhash", "pass", NoReason)),
          simhash_seen |-> fingerprints]
    ELSE IF page.fingerprint \in fingerprints
    THEN [ok |-> TRUE,
          stages |-> Append(stages, StageResult("simhash", "skip", <<"simhash-duplicate">>)),
          simhash_seen |-> fingerprints]
    ELSE [ok |-> TRUE, stages |-> Append(stages, StageResult("simhash", "pass", NoReason)),
          simhash_seen |-> fingerprints \cup {page.fingerprint}]

\* a simhash stage that remembers no fingerprint
StageSimhashForgetful(cfg, page, stages, fingerprints) ==
    IF ~cfg.simhash_enabled
    THEN [ok |-> TRUE, stages |-> Append(stages, StageResult("simhash", "pass", NoReason)),
          simhash_seen |-> fingerprints]
    ELSE IF page.fingerprint \in fingerprints
    THEN [ok |-> FALSE,
          stages |-> Append(stages, StageResult("simhash", "skip", <<"simhash-duplicate">>)),
          simhash_seen |-> fingerprints]
    ELSE [ok |-> TRUE, stages |-> Append(stages, StageResult("simhash", "pass", NoReason)),
          simhash_seen |-> fingerprints]

\* _stage_simhash: a fingerprint seen before skips, a new one is remembered
StageSimhash(cfg, page, stages, fingerprints) ==
    IF ~cfg.simhash_enabled
    THEN [ok |-> TRUE, stages |-> Append(stages, StageResult("simhash", "pass", NoReason)),
          simhash_seen |-> fingerprints]
    ELSE IF page.fingerprint \in fingerprints
    THEN [ok |-> FALSE,
          stages |-> Append(stages, StageResult("simhash", "skip", <<"simhash-duplicate">>)),
          simhash_seen |-> fingerprints]
    ELSE [ok |-> TRUE, stages |-> Append(stages, StageResult("simhash", "pass", NoReason)),
          simhash_seen |-> fingerprints \cup {page.fingerprint}]

\* the score _stage_classifier feeds to the logistic function
ClassifierScore(cfg, page) ==
    LET w == cfg.classifier_weights
    IN  w.bias * 100
        + w.text_density * page.text_density
        + w.retro_score * page.retro_score
        + w.script_ratio * page.script_ratio
        + w.anchor_ratio * page.anchor_ratio
        + w.token_ratio * Min(200, page.token_count)
        + (IF page.odd_keyword THEN w.odd_keyword * 100 ELSE 0)

\* _stage_classifier
StageClassifier(cfg, page, stages) ==
    IF ClassifierScore(cfg, page) < cfg.classifier_logit
    THEN [ok |-> FALSE, stages |-> Append(stages, StageResult("classifier", "skip", <<"classifier<">>))]
    ELSE [ok |-> TRUE, stages |-> Append(stages, StageResult("classifier", "pass", NoReason))]

\* _stage_prefilter: PrefilterEngine.evaluate skips exactly when it gives
\* reasons, and the reasons joined are the reason of the stage
StagePrefilter(cfg, page, stages) ==
    IF page.prefilter_reasons # <<>>
    THEN [ok |-> FALSE,
          stages |-> Append(stages, StageResult("prefilter", "skip", page.prefilter_reasons))]
    ELSE [ok |-> TRUE, stages |-> Append(stages, StageResult("prefilter", "pass", NoReason))]

\* CascadeDecision, with the fingerprints the cascade remembers afterwards
Decision(should_skip, stages, fingerprints) ==
    [ should_skip |-> should_skip,
      stages |-> stages,
      final_reason |-> IF should_skip THEN stages[Len(stages)].reason ELSE NoReason,
      simhash_seen |-> fingerprints ]

\* TriageCascade.evaluate
Evaluate(cfg, fingerprints, page) ==
    LET head == StageHead(cfg, page, <<>>)
        snippet == StageSnippet(cfg, page, head.stages)
        structure == StageStructure(cfg, page, snippet.stages)
        keywords == StageKeywords(cfg, page, structure.stages)
        simhash == StageSimhash(cfg, page, keywords.stages, fingerprints)
        classifier == StageClassifier(cfg, page, simhash.stages)
        prefilter == StagePrefilter(cfg, page, classifier.stages)
    IN  IF ~head.ok THEN Decision(TRUE, head.stages, fingerprints)
        ELSE IF ~snippet.ok THEN Decision(TRUE, snippet.stages, fingerprints)
        ELSE IF ~structure.ok THEN Decision(TRUE, structure.stages, fingerprints)
        ELSE IF ~keywords.ok THEN Decision(TRUE, keywords.stages, fingerprints)
        ELSE IF ~simhash.ok THEN Decision(TRUE, simhash.stages, simhash.simhash_seen)
        ELSE IF ~classifier.ok THEN Decision(TRUE, classifier.stages, simhash.simhash_seen)
        ELSE IF ~prefilter.ok THEN Decision(TRUE, prefilter.stages, simhash.simhash_seen)
        ELSE Decision(FALSE, prefilter.stages, simhash.simhash_seen)

\* the head of a fetch result: content type and content length
HeadInputs ==
    { [content_type |-> "text/html", content_length |-> 3],
      [content_type |-> "", content_length |-> 3],
      [content_type |-> "image/png", content_length |-> 3],
      [content_type |-> "text/html", content_length |-> 1],
      [content_type |-> "text/html", content_length |-> 5] }

\* the body of a fetch result: not bytes, bytes that decode to blanks, markup
BodyInputs == {"missing", "blank", "html"}

\* what the parsed snippet measures
StructureInputs ==
    { [token_count |-> 50, anchor_ratio |-> 10, script_ratio |-> 5, text_density |-> 40,
       retro_score |-> 0, odd_keyword |-> FALSE],
      [token_count |-> 50, anchor_ratio |-> 10, script_ratio |-> 60, text_density |-> 40,
       retro_score |-> 0, odd_keyword |-> FALSE],
      [token_count |-> 50, anchor_ratio |-> 70, script_ratio |-> 5, text_density |-> 40,
       retro_score |-> 0, odd_keyword |-> FALSE],
      [token_count |-> 5, anchor_ratio |-> 10, script_ratio |-> 5, text_density |-> 1,
       retro_score |-> 0, odd_keyword |-> FALSE],
      [token_count |-> 45, anchor_ratio |-> 10, script_ratio |-> 5, text_density |-> 1,
       retro_score |-> 0, odd_keyword |-> FALSE],
      [token_count |-> 20, anchor_ratio |-> 10, script_ratio |-> 5, text_density |-> 1,
       retro_score |-> 0, odd_keyword |-> FALSE],
      [token_count |-> 10, anchor_ratio |-> 10, script_ratio |-> 5, text_density |-> 40,
       retro_score |-> 0, odd_keyword |-> FALSE],
      [token_count |-> 5, anchor_ratio |-> 10, script_ratio |-> 5, text_density |-> 1,
       retro_score |-> 33, odd_keyword |-> TRUE] }

\* the words of the snippet that matter to the keyword stage
WordInputs == {{}, {"mortgage"}}

\* simhash fingerprints of snippets
Fingerprints == {0, 1}

\* the reasons PrefilterEngine.evaluate gives
PrefilterInputs == {<<>>, <<"token_count<">>, <<"token_count<", "outbound_same_domain">>}

\* the fetch results evaluate() is called with
CascadePages ==
    { [ content_type |-> h.content_type, content_length |-> h.content_length, body |-> b,
        token_count |-> s.token_count, anchor_ratio |-> s.anchor_ratio,
        script_ratio |-> s.script_ratio, text_density |-> s.text_density,
        retro_score |-> s.retro_score, odd_keyword |-> s.odd_keyword,
        words |-> w, fingerprint |-> f, prefilter_reasons |-> r ] :
      h \in HeadInputs, b \in BodyInputs, s \in StructureInputs, w \in WordInputs,
      f \in Fingerprints, r \in PrefilterInputs }

NoDecision == [should_skip |-> FALSE, stages |-> <<>>, final_reason |-> NoReason]

\* a TriageCascade constructed without a configuration
CascadeInit ==
    /\ cascade_config = CascadeDefaults
    /\ simhash_seen = {}
    /\ last_decision = NoDecision

\* ------------------------------------------------------------------------
\* Scoring thresholds (scoring/fusion.py), in hundredths
\* ------------------------------------------------------------------------
\* the thresholds load_scoring_config falls back to
DefaultThresholds == [persist |-> 35, llm_gate |-> 60, alert |-> 80]

\* the values a scoring.yaml gives a threshold
ThresholdChoices == {20, 35, 60, 80}

\* fused scores: fuse() returns a value strictly between 0 and 1
FusedScores == {10, 20, 34, 35, 59, 60, 79, 80, 90}

\* decide with the persist threshold looked at first
ScoringDecidePersistFirst(th, score) ==
    IF score >= th.persist THEN "persist"
    ELSE IF score >= th.llm_gate THEN "llm"
    ELSE "skip"

\* ScoringEngine.decide: the action
ScoringDecide(th, score) ==
    IF score >= th.llm_gate THEN "llm"
    ELSE IF score >= th.persist THEN "persist"
    ELSE "skip"

\* ScoringEngine.decide: the keys of thresholds_hit
ThresholdsHit(th, score) ==
    {"persist"} \cup (IF score >= th.llm_gate THEN {"llm"} ELSE {})
                \cup (IF score >= th.alert THEN {"alert"} ELSE {})

NoScored == [called |-> FALSE, score |-> 0, action |-> "", thresholds_hit |-> {}]

\* a ScoringEngine without a scoring.yaml
ScoringInit ==
    /\ thresholds = DefaultThresholds
    /\ last_scored = NoScored

\* ------------------------------------------------------------------------
\* Dangerous-content breadcrumbs (storage/compliance.py, agents/analyst.py,
\* agents/triage.py)
\* ------------------------------------------------------------------------
\* the dangerous_breadcrumbs section of a storage configuration
StorageConfigs == [enabled : BOOLEAN, sink : {"local", "s3"}]

\* the section of a storage configuration that does not mention breadcrumbs
DefaultStorage == [enabled |-> FALSE, sink |-> "local"]

\* the pages whose observations reach the triage orchestrator
ObservedURLS == {"a1", "b1"}

\* a finding: its url (None when the key is absent), its dangerous_content
\* ("missing" when it is no mapping, else whether present is set) and the
\* category the analyst names
Findings ==
    [url : {None, "", "a1"}, dangerous : {"missing", "absent", "present"},
     category : {"violent", "unlisted"}]

\* no finding is passed (finding=None)
NoFinding == [url |-> None, dangerous |-> "none", category |-> ""]

\* what the analyst model answers when asked for a finding
LLMOutcomes == Findings \cup {[error |-> "GeminiConfigurationError"]}

\* _normalize_category
NormalizeCategory(value) ==
    IF value \in {"self-harm", "illegal-trade", "adult", "extremist", "violent", "other"}
    THEN value ELSE "other"

\* _derive_url_hash for an observation without hashes
DeriveUrlHash(url) == <<"sha256", url>>

NoCrumb == [url_hash |-> <<>>, category |-> ""]

\* maybe_record_breadcrumb with the flag of the finding left unread
MaybeRecordBreadcrumbUnflagged(finding, cfg, file) ==
    IF finding.dangerous \notin {"absent", "present"}
    THEN [raises |-> "", breadcrumb |-> NoCrumb, file |-> file]
    ELSE IF ~cfg.enabled
    THEN [raises |-> "", breadcrumb |-> NoCrumb, file |-> file]
    ELSE IF finding.url \in {None, ""}
    THEN [raises |-> "ValueError", breadcrumb |-> NoCrumb, file |-> file]
    ELSE IF cfg.sink # "local"
    THEN [raises |-> "NotImplementedError", breadcrumb |-> NoCrumb, file |-> file]
    ELSE LET crumb == [url_hash |-> DeriveUrlHash(finding.url),
                       category |-> NormalizeCategory(finding.category)]
         IN  [raises |-> "", breadcrumb |-> crumb, file |-> Append(file, crumb)]

\* maybe_record_breadcrumb, persist_breadcrumb included
MaybeRecordBreadcrumb(finding, cfg, file) ==
    IF finding.dangerous # "present"
    THEN [raises |-> "", breadcrumb |-> NoCrumb, file |-> file]
    ELSE IF ~cfg.enabled
    THEN [raises |-> "", breadcrumb |-> NoCrumb, file |-> file]
    ELSE IF finding.url \in {None, ""}
    THEN [raises |-> "ValueError", breadcrumb |-> NoCrumb, file |-> file]
    ELSE IF cfg.sink # "local"
    THEN [raises |-> "NotImplementedError", breadcrumb |-> NoCrumb, file |-> file]
    ELSE LET crumb == [url_hash |-> DeriveUrlHash(finding.url),
                       category |-> NormalizeCategory(finding.category)]
         IN  [raises |-> "", breadcrumb |-> crumb, file |-> Append(file, crumb)]

\* _ensure_observation_ref: a finding without a url gets the observation's
EnsureObservationRef(finding, obs_url) ==
    IF finding.url = None THEN [finding EXCEPT !.url = obs_url] ELSE finding

\* AnalystResultProcessor.process(finding, observation=observation,
\* persist_observation=False) with a finding at hand
AnalystProcess(finding, obs_url, cfg, file) ==
    LET finding_dict == EnsureObservationRef(finding, obs_url)
        r == MaybeRecordBreadcrumb(finding_dict, cfg, file)
    IN  [finding |-> finding_dict, raises |-> r.raises, breadcrumb |-> r.breadcrumb,
         file |-> r.file]

\* _fallback_finding
FallbackFinding(obs_url) == [url |-> obs_url, dangerous |-> "absent", category |-> "none"]

\* TriageOrchestrator.handle_decision after the excerpt was written: the
\* finding it ends with and what became of the breadcrumb file
HandleDecision(action, obs_url, finding, llm, cfg, file) ==
    IF action # "llm"
    THEN [finding |-> finding, raises |-> "", breadcrumb |-> NoCrumb, file |-> file,
          processed |-> FALSE]
    ELSE LET given == IF finding # NoFinding THEN finding
                      ELSE IF llm \in Findings THEN llm
                      ELSE FallbackFinding(obs_url)
             r == AnalystProcess(given, obs_url, cfg, file)
         IN  [finding |-> r.finding, raises |-> r.raises, breadcrumb |-> r.breadcrumb,
              file |-> r.file, processed |-> TRUE]

NoHandled ==
    [called |-> FALSE, action |-> "", finding |-> NoFinding, enabled |-> FALSE, sink |-> "",
     processed |-> FALSE, raises |-> "", persisted |-> FALSE]

\* a TriageOrchestrator on a storage configuration without breadcrumbs and
\* an empty breadcrumb directory
CrumbInit ==
    /\ storage_config = DefaultStorage
    /\ breadcrumb_file = <<>>
    /\ last_handled = NoHandled

\* ------------------------------------------------------------------------
\* Frontier persistence (crawler/frontier.py, export_state .. load)
\* ------------------------------------------------------------------------
\* the order sorted() puts the URLs in
URLOrder == <<"a1", "a2", "b1">>

\* sorted(self._seen)
SortedSeen(urls) == SelectSeq(URLOrder, LAMBDA u : u \in urls)

\* the feedback statistics of a frontier that has not seen any feedback
NoFeedbackMaps ==
    [host_stats |-> {}, host_hints |-> {}, host_cascade |-> {}, total_pulls |-> 0]

\* the feedback statistics a frontier carries: host_stats, host_hints and
\* host_cascade as sets of (host, value) entries, and total_pulls
FeedbackMapChoices ==
    { NoFeedbackMaps,
      [host_stats |-> {[host |-> "a.test", pulls |-> 1, hits |-> 0, failures |-> 1],
                       [host |-> "b.onion", pulls |-> 0, hits |-> 0, failures |-> 1]},
       host_hints |-> {[host |-> "a.test", hint |-> 0]},
       host_cascade |-> {[host |-> "a.test", passes |-> 0, skips |-> 1]},
       total_pulls |-> 1] }

\* _serialize_job
SerializeJob(job, available_at) ==
    [priority |-> job.priority, order |-> job.order, host |-> job.host, url |-> job.url,
     available_at |-> available_at]

\* _deserialize_job
DeserializeJob(entry) ==
    [priority |-> entry.priority, order |-> entry.order, host |-> entry.host, url |-> entry.url]

\* the frontier as export_state reads it
FrontierObject ==
    [order |-> order, seen |-> seen, heap |-> heap, delay_heap |-> delay_heap,
     host_buckets |-> host_buckets, host_backoff |-> host_backoff, maps |-> host_maps,
     settings |-> settings]

\* Frontier.export_state; a job of the main heap carries available_at 0
ExportState(f) ==
    [order |-> f.order,
     seen |-> SortedSeen(f.seen),
     heap |-> {SerializeJob(job, 0) : job \in f.heap},
     delayed |-> {[available_at |-> d.available_at, order |-> d.job.order,
                   job |-> SerializeJob(d.job, d.available_at)] : d \in f.delay_heap},
     host_stats |-> f.maps.host_stats,
     host_buckets |-> f.host_buckets,
     host_backoff |-> f.host_backoff,
     host_hints |-> f.maps.host_hints,
     host_cascade |-> f.maps.host_cascade,
     total_pulls |-> f.maps.total_pulls,
     settings |-> f.settings]

\* from_state that puts the delayed jobs into the main heap
FromStateDelayedReady(state) ==
    [order |-> state.order,
     seen |-> {state.seen[i] : i \in {k \in 1..Len(state.seen) : state.seen[k] # ""}},
     heap |-> {DeserializeJob(e) : e \in {x \in state.heap : x.url # ""}}
              \cup {DeserializeJob(e.job) : e \in state.delayed},
     delay_heap |-> {},
     host_buckets |-> state.host_buckets,
     host_backoff |-> state.host_backoff,
     maps |-> [host_stats |-> state.host_stats,
               host_hints |-> state.host_hints,
               host_cascade |-> {[host |-> c.host, passes |-> c.passes, skips |-> c.skips] :
                                  c \in state.host_cascade},
               total_pulls |-> state.total_pulls],
     settings |-> state.settings]

\* Frontier.from_state without a settings argument; the inflight map of the
\* new frontier is empty
FromState(state) ==
    [order |-> state.order,
     seen |-> {state.seen[i] : i \in {k \in 1..Len(state.seen) : state.seen[k] # ""}},
     heap |-> {DeserializeJob(e) : e \in {x \in state.heap : x.url # ""}},
     delay_heap |-> {[available_at |-> e.available_at, job |-> DeserializeJob(e.job)] :
                      e \in state.delayed},
     host_buckets |-> state.host_buckets,
     host_backoff |-> state.host_backoff,
     maps |-> [host_stats |-> state.host_stats,
               host_hints |-> state.host_hints,
               host_cascade |-> {[host |-> c.host, passes |-> c.passes, skips |-> c.skips] :
                                  c \in state.host_cascade},
               total_pulls |-> state.total_pulls],
     settings |-> state.settings]

\* the URLs of the jobs an exported state holds in its two heaps
PendingIn(state) == {e.url : e \in state.heap} \cup {e.job.url : e \in state.delayed}

\* the URLs pop() has handed out: seen and in neither heap
HandedOut(f) == f.seen \ ({j.url : j \in f.heap} \cup {d.job.url : d \in f.delay_heap})

\* no frontier.json
NoFile == [order |-> 0 - 1]

NoRestore == [called |-> FALSE, state |-> NoFile, exported |-> NoFile]

\* a process that starts without a saved frontier
PersistInit ==
    /\ host_maps = NoFeedbackMaps
    /\ frontier_file = NoFile
    /\ popped_before_restart = {}
    /\ last_restore = NoRestore

\* ------------------------------------------------------------------------
\* GraphStore (storage/graph_store.py)
\* _ANCHOR_HISTORY and _SCORE_HISTORY, scaled: the code keeps 5 anchor texts
\* per edge and 10 score entries per node
GraphLimits == [anchor_history |-> 2, score_history |-> 2]

GraphURLS == {"a1", "b1"}
AnchorTexts == {"", "x", "y", "z"}
\* OutboundLink(url, anchor_text)
OutboundLinks == [url : GraphURLS, anchor_text : AnchorTexts]
LinkLists == {<<>>} \cup {<<l>> : l \in OutboundLinks}
                 \cup {<<l, m>> : l \in OutboundLinks, m \in OutboundLinks}
\* update_score(url, score, action=...): fused scores in hundredths
ScoreUpdates == {[score |-> 20, action |-> "skip"], [score |-> 80, action |-> "llm"]}

\* a node attribute whose key is missing, and one whose value is None
KeyAbsent == 0 - 2
NoValue == 0 - 1

NoNode == [present |-> FALSE, first_seen |-> KeyAbsent, last_seen |-> KeyAbsent,
           observations |-> 0, outbound_count |-> 0,
           score_history |-> <<>>, last_score |-> 0, last_action |-> ""]

\* dict.setdefault(key, value): the value the key has afterwards
SetDefault(current, value) == IF current = KeyAbsent THEN value ELSE current
NoEdge == [present |-> FALSE, weight |-> 0, anchor_texts |-> <<>>]
\* nx.DiGraph()
EmptyGraph == [nodes |-> [u \in GraphURLS |-> NoNode],
               edges |-> [e \in GraphURLS \X GraphURLS |-> NoEdge]]

\* seq[-n:]
LastN(seq, n) ==
    IF Len(seq) <= n THEN seq ELSE SubSeq(seq, Len(seq) - n + 1, Len(seq))

\* GraphStore._ensure_node(url)
EnsureNode(g, url) ==
    IF g.nodes[url].present THEN g
    ELSE [g EXCEPT !.nodes[url] = [NoNode EXCEPT !.present = TRUE,
                                                  !.first_seen = NoValue,
                                                  !.last_seen = NoValue]]

\* GraphStore._record_edge(source, link)
RecordEdge(g, source, link) ==
    LET g1 == EnsureNode(g, link.url)
        edge_data == g1.edges[<<source, link.url>>]
        known == {edge_data.anchor_texts[i] : i \in 1..Len(edge_data.anchor_texts)}
        appended == IF link.anchor_text \notin known
                    THEN Append(edge_data.anchor_texts, link.anchor_text)
                    ELSE edge_data.anchor_texts
        anchor_texts == IF link.anchor_text # ""
                        THEN LastN(appended, GraphLimits.anchor_history)
                        ELSE edge_data.anchor_texts
    IN  [g1 EXCEPT !.edges[<<source, link.url>>] =
                       [present |-> TRUE, weight |-> edge_data.weight + 1,
                        anchor_texts |-> anchor_texts]]

\* the loop of record_page over its links
RECURSIVE RecordLinksWithSelf(_, _, _)
RecordLinksWithSelf(g, source, links) ==
    IF links = <<>> THEN g
    ELSE RecordLinksWithSelf(RecordEdge(g, source, Head(links)), source, Tail(links))

RECURSIVE RecordLinks(_, _, _)
RecordLinks(g, source, links) ==
    IF links = <<>> THEN g
    ELSE IF Head(links).url = source THEN RecordLinks(g, source, Tail(links))
    ELSE RecordLinks(RecordEdge(g, source, Head(links)), source, Tail(links))

\* len(processed_links)
ProcessedLinks(source, links) ==
    Cardinality({i \in 1..Len(links) : links[i].url # source})

\* GraphStore.record_page(source_url, fetched_at=..., links=...): the graph it
\* leaves
RecordPage(g, source, fetched_at, links) ==
    LET g1 == EnsureNode(g, source)
        g2 == [g1 EXCEPT !.nodes[source].last_seen = fetched_at,
                         !.nodes[source].first_seen = SetDefault(@, fetched_at),
                         !.nodes[source].observations = @ + 1]
        g3 == RecordLinks(g2, source, links)
    IN  [g3 EXCEPT !.nodes[source].outbound_count = ProcessedLinks(source, links)]

\* GraphStore.update_score(url, score, action=...): the graph it leaves
UpdateScoreKeepOldest(g, url, update) ==
    IF ~g.nodes[url].present THEN g
    ELSE [g EXCEPT !.nodes[url].score_history =
                       IF Len(@) < GraphLimits.score_history THEN Append(@, update) ELSE @,
                   !.nodes[url].last_score = update.score,
                   !.nodes[url].last_action = update.action]

UpdateScore(g, url, update) ==
    IF ~g.nodes[url].present THEN g
    ELSE [g EXCEPT !.nodes[url].score_history =
                       LastN(Append(LastN(@, GraphLimits.score_history), update),
                             GraphLimits.score_history),
                   !.nodes[url].last_score = update.score,
                   !.nodes[url].last_action = update.action]

\* nx.node_link_data(graph, edges="links"): the JSON document of persist()
NodeLinkData(g) ==
    [nodes |-> {[id |-> u, attrs |-> g.nodes[u]] : u \in {v \in GraphURLS : g.nodes[v].present}},
     links |-> {[source |-> e[1], target |-> e[2], attrs |-> g.edges[e]] :
                    e \in {f \in GraphURLS \X GraphURLS : g.edges[f].present}}]

\* nx.node_link_graph(data, directed=True, multigraph=False, edges="links"):
\* add_node for every entry of "nodes", add_edge for every entry of "links"
\* (add_edge adds the endpoints it does not know)
NodeLinkGraph(data) ==
    [nodes |-> [u \in GraphURLS |->
                   IF \E n \in data.nodes : n.id = u
                   THEN (CHOOSE n \in data.nodes : n.id = u).attrs
                   ELSE IF \E l \in data.links : l.source = u \/ l.target = u
                   THEN [NoNode EXCEPT !.present = TRUE]
                   ELSE NoNode],
     edges |-> [e \in GraphURLS \X GraphURLS |->
                   IF \E l \in data.links : l.source = e[1] /\ l.target = e[2]
                   THEN (CHOOSE l \in data.links : l.source = e[1] /\ l.target = e[2]).attrs
                   ELSE NoEdge]]

\* link_graph.json does not exist
NoGraphFile == [nodes |-> {}, links |-> {}]

\* the number of record_page calls the nodes of a graph have counted
RECURSIVE Observations(_, _)
Observations(g, S) ==
    IF S = {} THEN 0
    ELSE LET u == CHOOSE v \in S : TRUE
         IN  g.nodes[u].observations + Observations(g, S \ {u})

\* the links to target in a record_page call
LinksTo(links, target) == Cardinality({i \in 1..Len(links) : links[i].url = target})

\* no record_page call for a URL yet
NoPages == [calls |-> 0, first |-> 0, last |-> 0]

\* GraphStore.__init__ where no graph file exists
GraphInit ==
    /\ graph = EmptyGraph
    /\ graph_file = NoGraphFile
    /\ pagerank_dirty = TRUE
    /\ link_log = [e \in GraphURLS \X GraphURLS |-> 0]
    /\ score_log = [u \in GraphURLS |-> <<>>]
    /\ page_log = [u \in GraphURLS |-> NoPages]

\* ------------------------------------------------------------------------
\* Bandit priorities of the frontier (crawler/frontier.py)
\* Scores, rewards, weights and priorities are in thousandths.
BanditHosts == {"a.test", "b.test"}

\* FrontierSettings with only weight_bandit non-zero, depth_penalty and
\* cross_domain_bonus 0.0, min_priority 0.05, max_priority 1.0, and
\* host_refill_seconds 0.0 with host_token_capacity 5.0, so that every pop
\* finds a token: the settings of test_ucb_prioritizes_high_reward_host, the
\* same without exploration, and a small bandit weight
BanditSettingsChoices ==
    { [weight_bandit |-> 1000, bandit_initial |-> 500, bandit_exploration |-> 300,
       min_priority |-> 50, max_priority |-> 1000],
      [weight_bandit |-> 1000, bandit_initial |-> 500, bandit_exploration |-> 0,
       min_priority |-> 50, max_priority |-> 1000],
      [weight_bandit |-> 40, bandit_initial |-> 500, bandit_exploration |-> 0,
       min_priority |-> 50, max_priority |-> 1000] }

\* the scores record_feedback is given: 0.1, 0.8, 0.9
Rewards == {100, 800, 900}

NoStats == [pulls |-> 0, reward_sum |-> 0]

\* math.sqrt(math.log(total) / pulls) for total <= 6 and pulls <= 3, rounded
\* to thousandths
SqrtLogRatio(total, pulls) ==
    CASE total <= 1 -> 0
      [] total = 2 /\ pulls = 1 -> 833
      [] total = 2 /\ pulls = 2 -> 589
      [] total = 2 /\ pulls = 3 -> 481
      [] total = 3 /\ pulls = 1 -> 1048
      [] total = 3 /\ pulls = 2 -> 741
      [] total = 3 /\ pulls = 3 -> 605
      [] total = 4 /\ pulls = 1 -> 1177
      [] total = 4 /\ pulls = 2 -> 833
      [] total = 4 /\ pulls = 3 -> 680
      [] total = 5 /\ pulls = 1 -> 1269
      [] total = 5 /\ pulls = 2 -> 897
      [] total = 5 /\ pulls = 3 -> 732
      [] total = 6 /\ pulls = 1 -> 1339
      [] total = 6 /\ pulls = 2 -> 947
      [] total = 6 /\ pulls = 3 -> 773
      [] OTHER -> 0

\* max(0.0, min(1.0, x))
Clamp01(x) == Max(0, Min(1000, x))

\* the exploration term of _bandit_score
Exploration(s, total_pulls, pulls) ==
    (s.bandit_exploration * SqrtLogRatio(Max(1, total_pulls), Max(1, pulls))) \div 1000

\* Frontier._bandit_score that ignores the statistics
BanditScoreInitial(s, stats, total_pulls) == s.bandit_initial

\* Frontier._bandit_score(host)
BanditScore(s, stats, total_pulls) ==
    IF stats.pulls = 0
    THEN s.bandit_initial
    ELSE LET pulls == Max(1, stats.pulls)
             avg_reward == Clamp01(stats.reward_sum \div pulls)
         IN  Clamp01(avg_reward + Exploration(s, total_pulls, pulls))

\* Frontier._compute_priority where only weight_bandit is non-zero and no
\* cascade statistics exist, then the clamp of add()
BanditPriority(s, stats, total_pulls) ==
    Max(s.min_priority,
        Min(s.max_priority, (s.weight_bandit * BanditScore(s, stats, total_pulls)) \div 1000))

\* Frontier.__init__
NewBandit(s) ==
    [settings |-> s, host_stats |-> [h \in BanditHosts |-> NoStats], total_pulls |-> 0,
     heap |-> {}, order |-> 0]

NoBanditPop == [called |-> FALSE, host |-> "", first_added |-> "", paired |-> FALSE,
                priorities |-> [h \in BanditHosts |-> 0],
                host_stats |-> [h \in BanditHosts |-> NoStats], total_pulls |-> 0]

\* a frontier with the settings of test_ucb_prioritizes_high_reward_host
BanditInit ==
    /\ bandit = NewBandit([weight_bandit |-> 1000, bandit_initial |-> 500,
                           bandit_exploration |-> 300, min_priority |-> 50,
                           max_priority |-> 1000])
    /\ last_bandit_pop = NoBanditPop

\* ------------------------------------------------------------------------
\* URL canonicalisation (utils/canonical.py)
\* ------------------------------------------------------------------------
\* A URL is a sequence of tokens: one token per character or per group of
\* characters the code never takes apart (the scheme with its colon, a host
\* label, a port number, a percent escape).
Invalid == <<"ValueError">>
NotRun == <<"not run">>

\* str.lower()
Lower(t) ==
    CASE t = "HTTP:" -> "http:"
      [] t = "A" -> "a"
      [] OTHER -> t

LowerAll(s) == [i \in 1..Len(s) |-> Lower(s[i])]

Reverse(s) == [i \in 1..Len(s) |-> s[Len(s) + 1 - i]]

RECURSIVE LStrip(_, _)
LStrip(s, drop) ==
    IF s # <<>> /\ Head(s) \in drop THEN LStrip(Tail(s), drop) ELSE s

\* str.strip(): without its leading and trailing tokens of drop
Strip(s, drop) == Reverse(LStrip(Reverse(LStrip(s, drop)), drop))

\* str.find: the position of the first token of toks, Len(s) + 1 without one
IndexOf(s, toks) ==
    IF \E i \in 1..Len(s) : s[i] \in toks
    THEN CHOOSE i \in 1..Len(s) : s[i] \in toks /\ \A k \in 1..(i - 1) : s[k] \notin toks
    ELSE Len(s) + 1

\* str.rfind: the position of the last token of toks, 0 without one
LastIndexOf(s, toks) ==
    IF \E i \in 1..Len(s) : s[i] \in toks
    THEN CHOOSE i \in 1..Len(s) : s[i] \in toks /\ \A k \in (i + 1)..Len(s) : s[k] \notin toks
    ELSE 0

\* s[:n]
Prefix(s, n) == SubSeq(s, 1, Min(n, Len(s)))

Before(s, toks) == SubSeq(s, 1, IndexOf(s, toks) - 1)
After(s, toks) == SubSeq(s, IndexOf(s, toks) + 1, Len(s))

\* str.split(sep): the pieces between the separators, empty pieces included
RECURSIVE SplitOn(_, _)
SplitOn(s, sep) ==
    IF IndexOf(s, {sep}) > Len(s) THEN <<s>>
    ELSE <<Before(s, {sep})>> \o SplitOn(After(s, {sep}), sep)

\* sep.join(parts)
RECURSIVE JoinWith(_, _)
JoinWith(parts, sep) ==
    IF parts = <<>> THEN <<>>
    ELSE IF Len(parts) = 1 THEN parts[1]
    ELSE parts[1] \o <<sep>> \o JoinWith(Tail(parts), sep)

SchemeTokens == {"http:", "HTTP:", "https:", "ftp:"}
DEFAULT_ALLOWED_SCHEMES == {"http:", "https:"}

\* urllib.parse.urlsplit: the scheme (lowercased), the netloc after "//" up
\* to the next "/", "?" or "#", the path, the query; the fragment is not used
Urlsplit(url) ==
    LET hasScheme == url # <<>> /\ Head(url) \in SchemeTokens
        rest == IF hasScheme THEN Tail(url) ELSE url
        hasNetloc == Prefix(rest, 2) = <<"/", "/">>
        afterSlashes == IF hasNetloc THEN SubSeq(rest, 3, Len(rest)) ELSE rest
        netloc == IF hasNetloc THEN Before(afterSlashes, {"/", "?", "#"}) ELSE <<>>
        afterNetloc == SubSeq(afterSlashes, Len(netloc) + 1, Len(afterSlashes))
        noFragment == Before(afterNetloc, {"#"})
    IN  [scheme |-> IF hasScheme THEN Lower(Head(url)) ELSE "",
         netloc |-> netloc,
         path |-> Before(noFragment, {"?"}),
         query |-> After(noFragment, {"?"})]

\* urllib.parse.urlunsplit with an empty fragment; every scheme of the model
\* is in uses_netloc
Urlunsplit(scheme, netloc, path, query) ==
    LET withNetloc ==
            IF netloc # <<>> \/ Prefix(path, 2) # <<"/", "/">>
            THEN <<"/", "/">> \o netloc
                     \o (IF path # <<>> /\ Head(path) # "/" THEN <<"/">> ELSE <<>>) \o path
            ELSE path
    IN  <<scheme>> \o withNetloc \o (IF query # <<>> THEN <<"?">> \o query ELSE <<>>)

\* _normalize_netloc
NormalizeNetloc(netloc, scheme) ==
    LET at == LastIndexOf(netloc, {"@"})
        userinfo == IF at > 0 THEN SubSeq(netloc, 1, at - 1) ELSE <<>>
        host_port == IF at > 0 THEN SubSeq(netloc, at + 1, Len(netloc)) ELSE netloc
        host == Strip(LowerAll(Before(host_port, {":"})), {"."})
        rawPort == Strip(After(host_port, {":"}), {" "})
        port == IF \/ (scheme = "http:" /\ rawPort = <<"80">>)
                   \/ (scheme = "https:" /\ rawPort = <<"443">>)
                THEN <<>> ELSE rawPort
        joined == IF port = <<>> THEN host ELSE host \o <<":">> \o port
    IN  IF userinfo # <<>> THEN userinfo \o <<"@">> \o joined ELSE joined

\* the loop of posixpath.normpath over the components
RECURSIVE NormComps(_, _, _)
NormComps(comps, new_comps, initial_slashes) ==
    IF comps = <<>> THEN new_comps
    ELSE LET comp == Head(comps)
         IN  IF comp \in {<<>>, <<".">>}
             THEN NormComps(Tail(comps), new_comps, initial_slashes)
             ELSE IF \/ comp # <<".", ".">>
                     \/ (initial_slashes = 0 /\ new_comps = <<>>)
                     \/ (new_comps # <<>> /\ new_comps[Len(new_comps)] = <<".", ".">>)
             THEN NormComps(Tail(comps), Append(new_comps, comp), initial_slashes)
             ELSE IF new_comps # <<>>
             THEN NormComps(Tail(comps), SubSeq(new_comps, 1, Len(new_comps) - 1),
                            initial_slashes)
             ELSE NormComps(Tail(comps), new_comps, initial_slashes)

\* posixpath.normpath
Normpath(path) ==
    IF path = <<>> THEN <<".">>
    ELSE LET initial_slashes ==
                 IF Head(path) # "/" THEN 0
                 ELSE IF /\ Prefix(path, 2) = <<"/", "/">>
                         /\ Prefix(path, 3) # <<"/", "/", "/">>
                 THEN 2 ELSE 1
             joined == JoinWith(NormComps(SplitOn(path, "/"), <<>>, initial_slashes), "/")
             result == [i \in 1..initial_slashes |-> "/"] \o joined
         IN  IF result = <<>> THEN <<".">> ELSE result

\* _normalize_path
NormalizePath(path) ==
    IF path = <<>> THEN <<"/">>
    ELSE LET has_trailing_slash == path[Len(path)] = "/"
             normalized == Normpath(path)
             rooted == IF Head(normalized) # "/" THEN <<"/">> \o normalized ELSE normalized
             slashed == IF has_trailing_slash /\ rooted[Len(rooted)] # "/"
                        THEN Append(rooted, "/") ELSE rooted
         IN  IF slashed = <<"/", "/">> THEN <<"/">> ELSE slashed

\* unquote(s.replace("+", " ")) of parse_qsl, token by token
Unquote(t) ==
    CASE t = "+" -> " "
      [] t = "%7e" -> "~"
      [] t = "%3D" -> "="
      [] OTHER -> t

\* quote_plus of urlencode, token by token
QuotePlus(t) ==
    CASE t = " " -> "+"
      [] t = "=" -> "%3D"
      [] OTHER -> t

\* the code points of the characters of a query, for the order of list.sort()
CodePoint(t) ==
    CASE t = " " -> 32
      [] t = "1" -> 49
      [] t = "2" -> 50
      [] t = "=" -> 61
      [] t = "a" -> 97
      [] t = "b" -> 98
      [] t = "~" -> 126
      [] OTHER -> 0

\* str.__lt__
RECURSIVE StrLess(_, _)
StrLess(s, t) ==
    IF t = <<>> THEN FALSE
    ELSE IF s = <<>> THEN TRUE
    ELSE IF CodePoint(Head(s)) # CodePoint(Head(t)) THEN CodePoint(Head(s)) < CodePoint(Head(t))
    ELSE StrLess(Tail(s), Tail(t))

\* the order of the (name, value) tuples
PairLess(p, q) == StrLess(p[1], q[1]) \/ (p[1] = q[1] /\ StrLess(p[2], q[2]))

\* pairs.sort()
RECURSIVE SortPairs(_)
SortPairs(pairs) ==
    IF pairs = <<>> THEN <<>>
    ELSE LET i == CHOOSE k \in 1..Len(pairs) :
                      /\ \A m \in 1..Len(pairs) : ~PairLess(pairs[m], pairs[k])
                      /\ \A m \in 1..(k - 1) : PairLess(pairs[k], pairs[m])
         IN  <<pairs[i]>> \o SortPairs(SubSeq(pairs, 1, i - 1) \o SubSeq(pairs, i + 1, Len(pairs)))

\* parse_qsl(query, keep_blank_values=True): empty pieces are dropped, a piece
\* without "=" gets an empty value
RECURSIVE ParseQsl(_)
ParseQsl(pieces) ==
    IF pieces = <<>> THEN <<>>
    ELSE LET nv == Head(pieces)
             name == [i \in 1..Len(Before(nv, {"="})) |-> Unquote(Before(nv, {"="})[i])]
             value == [i \in 1..Len(After(nv, {"="})) |-> Unquote(After(nv, {"="})[i])]
         IN  (IF nv = <<>> THEN <<>> ELSE << <<name, value>> >>) \o ParseQsl(Tail(pieces))

\* urlencode(pairs, doseq=True)
Urlencode(pairs) ==
    JoinWith([i \in 1..Len(pairs) |->
                 [k \in 1..Len(pairs[i][1]) |-> QuotePlus(pairs[i][1][k])]
                     \o <<"=">>
                     \o [k \in 1..Len(pairs[i][2]) |-> QuotePlus(pairs[i][2][k])]], "&")

\* _normalize_query
NormalizeQuery(query) ==
    IF query = <<>> THEN <<>>
    ELSE Urlencode(SortPairs(ParseQsl(SplitOn(query, "&"))))

\* canonicalize_url(url); Invalid stands for the ValueError it raises
canonicalize_url(url) ==
    IF url = <<>> THEN Invalid
    ELSE LET split == Urlsplit(Strip(url, {" "}))
         IN  IF split.scheme = "" THEN Invalid
             ELSE IF split.scheme \notin DEFAULT_ALLOWED_SCHEMES THEN Invalid
             ELSE IF split.netloc = <<>> THEN Invalid
             ELSE Urlunsplit(split.scheme, NormalizeNetloc(split.netloc, split.scheme),
                             NormalizePath(split.path), NormalizeQuery(split.query))

\* the URLs canonicalize_url is given
SchemeChoices == {<<"http:">>, <<"HTTP:">>, <<"https:">>, <<"ftp:">>}
NetlocChoices ==
    {<<"a">>, <<"A", ".">>, <<".">>, <<"a", ":", "80">>, <<"a", ":", "443">>,
     <<"a", ":", " ", "80">>, <<"u", "@", "A">>, <<>>}
PathChoices ==
    {<<>>, <<"/">>, <<"/", "x">>, <<"/", "x", "/", ".", ".", "/", "y">>,
     <<"/", "x", "/", ".", "/">>, <<"/", "/", "x">>, <<"/", "x", " ">>, <<"/", ".", ".">>}
QueryChoices ==
    {<<>>, <<"?", "b", "=", "2", "&", "a", "=", "1">>, <<"?", "a">>,
     <<"?", "a", "=", "%7e">>, <<"?", "a", "=", "1", "+">>, <<"?", "&">>}
FragmentChoices == {<<>>, <<"#", "f">>}
CanonInputs ==
    {<<>>, <<"a", "/", "x">>} \cup
    { s \o <<"/", "/">> \o n \o p \o q \o f :
        s \in SchemeChoices, n \in NetlocChoices, p \in PathChoices,
        q \in QueryChoices, f \in FragmentChoices }

NoCanon == [url |-> NotRun, once |-> NotRun, twice |-> NotRun]

CanonInit == canon = NoCanon

\* ------------------------------------------------------------------------
\* Fetcher.fetch attempt by attempt; the times of this part are seconds
\* ------------------------------------------------------------------------
\* last_request_at.get(host) is None
NoRequest == 0 - 1

\* backoff_bounds = None
NoBounds == <<>>

\* the arguments the Fetcher is constructed with: retries, backoff_bounds,
\* per_host_requests_per_minute (0 for None), and max_failures_per_host of the
\* TorConnector it is given
RetriesArgs == {0 - 1, 1, 2}
BackoffArgs == {NoBounds, <<0, 0>>, <<3, 1>>}
RateArgs == {0, 30}
MaxFailuresArgs == {1, 3}

\* Fetcher.retries
FetcherRetries(arg) == Max(arg, 0)

\* Fetcher.min_interval
MinInterval(per_minute) == IF per_minute > 0 THEN 60 \div per_minute ELSE 0

\* Fetcher.backoff_bounds
BackoffBounds(arg) == IF arg # NoBounds THEN arg ELSE <<1, 5>>

\* failure_block_minutes = 1 in seconds
FailureBlockSeconds == 60

\* a retry loop that allows one attempt more
AttemptsLeftOneMore(attempt, retries) == attempt <= retries + 1

\* the condition of the retry loop, attempt <= self.retries; the break after a
\* failed attempt is its negation
AttemptsLeft(attempt, retries) == attempt <= retries

\* the delay _backoff(attempt) computes; the bounds and the retries of the model
\* make the division exact
BackoffDelay(bounds, attempt, retries) ==
    Min(bounds[2], bounds[1] + ((bounds[2] - bounds[1]) * (attempt - 1)) \div Max(retries, 1))

\* the time _enforce_rate_limit sleeps before a request at time t
RateLimitWait(min_interval, last, t) ==
    IF min_interval <= 0 \/ last = NoRequest
    THEN 0
    ELSE Max(0, min_interval - (t - last))

\* TorConnector.record_failure of a connector built with max_failures
RecordFailureWith(max_failures, bl, failures, host, t) ==
    IF failures[host] + 1 >= Max(max_failures, 1)
    THEN [blocklist |-> BlockHost(bl, host, "failure", t + FailureBlockSeconds),
          host_failures |-> [failures EXCEPT ![host] = 0], persisted |-> TRUE]
    ELSE [blocklist |-> bl,
          host_failures |-> [failures EXCEPT ![host] = failures[host] + 1],
          persisted |-> FALSE]

\* the URLs fetched: one of a host reached directly, one of a host behind Tor
FetchURLS == {"a1", "b1"}

\* the answers of the server to one request
Responses == {"ok"} \cup FetchErrors

NoFetcher ==
    [built |-> FALSE, retries |-> 0, backoff_bounds |-> <<1, 5>>, min_interval |-> 0,
     max_failures |-> 1, last_request_at |-> [h \in Hosts |-> NoRequest],
     calling |-> FALSE, url |-> None, attempt |-> 0, using_tor |-> FALSE, last_error |-> "",
     requests |-> 0, backoffs |-> <<>>, outcome |-> "", last_sent |-> [h \in Hosts |-> NoRequest],
     gap |-> NoRequest, since_success |-> NoRequest, sent_blocked |-> FALSE, response |-> "",
     calls |-> 0]

\* no block for failures has begun
NoBlockEnd == 0 - 1

NoTorCall == [op |-> "", host |-> "", raises |-> "", blocked |-> FALSE,
              was_blocked |-> FALSE, was_expired |-> FALSE, nth |-> 0, streak |-> 0]

NoTorLog ==
    [streak |-> [h \in Hosts |-> 0], counted |-> [h \in Hosts |-> 0],
     block_end |-> [h \in Hosts |-> NoBlockEnd], call |-> NoTorCall]

\* no pop() under way
NoPopCall == [active |-> FALSE, url |-> None, deferred |-> [u \in URLS |-> 0], calls |-> 0,
              returned |-> {}]

\* no page
NoPage == [fingerprint |-> 0 - 1]

NoCascadeLog == [reached |-> {}, mark |-> NoPage, again |-> FALSE, knew |-> FALSE]

FetcherInit ==
    /\ fetcher = NoFetcher
    /\ tor_log = NoTorLog
    /\ cascade_log = NoCascadeLog
    /\ pop_call = NoPopCall

\* Fetcher(retries=..., backoff_bounds=..., per_host_requests_per_minute=...,
\* tor_connector=TorConnector(max_failures_per_host=...))
FetcherNew ==
    /\ ~fetcher.built
    /\ \E r \in RetriesArgs, b \in BackoffArgs, n \in RateArgs, m \in MaxFailuresArgs :
          fetcher' = [NoFetcher EXCEPT !.built = TRUE,
                                       !.retries = FetcherRetries(r),
                                       !.backoff_bounds = BackoffBounds(b),
                                       !.min_interval = MinInterval(n),
                                       !.max_failures = m]
    /\ UNCHANGED <<now, settings, frontierVars, historyVars, torVars, cacheVars, runVars,
                   cascadeVars, scoringVars, crumbVars, persistVars, graphVars, banditVars,
                   canonVars, logVars>>

\* Fetcher.fetch(url) up to the retry loop: the robots check and before_request
FetchCall ==
    /\ fetcher.built
    /\ ~fetcher.calling
    /\ fetcher.calls < MaxFetchCalls
    /\ \E url \in FetchURLS, allowed \in BOOLEAN :
          LET host == HostOf(url)
              routed == ShouldRoute(host)
              e == IF allowed /\ routed THEN EnsureNotBlocked(blocklist, host, now)
                   ELSE [raises |-> "", blocklist |-> blocklist, persisted |-> FALSE]
              started == [fetcher EXCEPT !.url = url, !.attempt = 0, !.using_tor = routed,
                                         !.last_error = "", !.requests = 0,
                                         !.backoffs = <<>>, !.response = "",
                                         !.calls = @ + 1]
          IN  /\ robots_cache' = robots_cache \cup {host}
              /\ blocklist' = e.blocklist
              /\ blocklist_file' = IF e.persisted THEN e.blocklist ELSE blocklist_file
              /\ fetcher' = IF ~allowed
                            THEN [started EXCEPT !.outcome = "RobotsDisallowed"]
                            ELSE IF e.raises # ""
                            THEN [started EXCEPT !.outcome = "TorPolicyError"]
                            ELSE [started EXCEPT !.calling = TRUE, !.outcome = ""]
    /\ UNCHANGED <<now, settings, frontierVars, historyVars, host_failures, host_last_request,
                   illegal_hosts, cacheVars, raw_store, excerpt_store, graph_scores, last_step,
                   last_seeds, failure_hosts, loop, reportVars, cascadeVars, scoringVars,
                   crumbVars, persistVars, graphVars, banditVars, canonVars, logVars>>

\* one pass of the retry loop: _enforce_rate_limit, the request, and either the
\* return of the result or the handling of the error with its backoff sleep
FetchAttempt ==
    /\ fetcher.calling
    /\ \E response \in Responses :
          LET host == HostOf(fetcher.url)
              last == fetcher.last_request_at[host]
              sent_at == now + RateLimitWait(fetcher.min_interval, last, now)
              failed == response # "ok"
              attempt == fetcher.attempt + 1
              goes_on == failed /\ AttemptsLeft(attempt, fetcher.retries)
              delay == BackoffDelay(fetcher.backoff_bounds, attempt, fetcher.retries)
              slept == IF goes_on THEN Max(0, delay) ELSE 0
              tf == RecordFailureWith(fetcher.max_failures, blocklist, host_failures, host,
                                      sent_at)
          IN  /\ sent_at + slept <= MaxFetchTime
              /\ now' = sent_at + slept
              /\ blocklist' = IF fetcher.using_tor /\ failed THEN tf.blocklist ELSE blocklist
              /\ blocklist_file' = IF fetcher.using_tor /\ failed /\ tf.persisted
                                   THEN tf.blocklist ELSE blocklist_file
              /\ host_failures' =
                    IF ~fetcher.using_tor THEN host_failures
                    ELSE IF failed THEN tf.host_failures
                    ELSE [host_failures EXCEPT ![host] = 0]
              /\ host_last_request' =
                    IF fetcher.using_tor /\ ~failed
                    THEN [host_last_request EXCEPT ![host] = sent_at]
                    ELSE host_last_request
              /\ fetcher' =
                    [fetcher EXCEPT
                        !.last_request_at = IF failed THEN @ ELSE [@ EXCEPT ![host] = sent_at],
                        !.calling = goes_on,
                        !.attempt = IF failed THEN attempt ELSE @,
                        !.last_error = IF failed THEN response ELSE @,
                        !.outcome = IF ~failed THEN "ok" ELSE IF goes_on THEN "" ELSE response,
                        !.requests = @ + 1,
                        !.backoffs = IF goes_on THEN Append(@, delay) ELSE @,
                        !.last_sent = [@ EXCEPT ![host] = sent_at],
                        !.gap = IF fetcher.last_sent[host] = NoRequest THEN NoRequest
                                ELSE sent_at - fetcher.last_sent[host],
                        !.since_success = IF last = NoRequest THEN NoRequest
                                          ELSE sent_at - last,
                        !.sent_blocked = /\ fetcher.using_tor
                                         /\ blocklist[host].present
                                         /\ IsActive(blocklist[host], sent_at),
                        !.response = response]
    /\ UNCHANGED <<settings, frontierVars, historyVars, illegal_hosts, cacheVars, runVars,
                   cascadeVars, scoringVars, crumbVars, persistVars, graphVars, banditVars,
                   canonVars, logVars>>

\* time passes between two calls
FetchTick ==
    /\ fetcher.built
    /\ ~fetcher.calling
    /\ now < MaxFetchTime
    /\ now' = now + 1
    /\ UNCHANGED <<settings, componentVars, frontierVars, historyVars, torVars, cacheVars,
                   runVars>>

\* the components the runner builds next to the frontier
ComponentInit ==
    /\ CascadeInit
    /\ ScoringInit
    /\ CrumbInit
    /\ PersistInit
    /\ GraphInit
    /\ BanditInit
    /\ CanonInit
    /\ FetcherInit

\* ------------------------------------------------------------------------
\* Telemetry, metrics and checkpoints of the run loop (runtime/run_loop.py)
\* ------------------------------------------------------------------------
\* the lines of telemetry.jsonl: a page event carries the action of its
\* decision and no "event" key, the others are named by their "event" key
EventKinds ==
    {"page_skip", "page_persist", "page_llm", "error", "url_404", "url_failure_cached",
     "seed_skipped"}

Actions == {"skip", "persist", "llm"}

PageEvent(action) ==
    CASE action = "skip" -> "page_skip"
      [] action = "persist" -> "page_persist"
      [] action = "llm" -> "page_llm"

\* an empty telemetry.jsonl
NoTelemetry == [e \in EventKinds |-> 0]

\* _log_event: the line is written and flushed
LogEvent(t, e) == [t EXCEPT ![e] = @ + 1]

\* the metrics _load_metrics starts from without a metrics.json
NewMetrics ==
    [pages_processed |-> 0, errors |-> 0, actions |-> [a \in Actions |-> 0],
     cached_failures |-> 0, failure_hosts |-> [h \in Hosts |-> 0]]

\* _update_metrics
UpdateMetrics(m, action) ==
    [m EXCEPT !.pages_processed = @ + 1, !.actions[action] = @ + 1]

\* _record_error
RecordError(m) == [m EXCEPT !.errors = @ + 1]

\* no metrics.json, no summary.json
NoReport == [exists |-> FALSE]

\* a file opened with mode "w" whose json.dump did not complete: empty, or
\* cut off in the middle
TruncatedFiles == {[exists |-> TRUE, bytes |-> "none"], [exists |-> TRUE, bytes |-> "some"]}

\* len(failure_cache)
CacheSize(es) == Cardinality({u \in URLS : es[u].present})

\* the frontier as the action that is being taken leaves it
FrontierNext ==
    [order |-> order', seen |-> seen', heap |-> heap', delay_heap |-> delay_heap',
     host_buckets |-> host_buckets', host_backoff |-> host_backoff', maps |-> host_maps',
     settings |-> settings']

\* _save_metrics: the counters of the cache and of the failure hosts are
\* copied into the metrics before they are written
SavedMetrics(m, es, fh) ==
    [m EXCEPT !.cached_failures = CacheSize(es), !.failure_hosts = fh]

\* _write_summary
Summary(m, f, es) ==
    [pages_processed |-> m.pages_processed, actions |-> m.actions, errors |-> m.errors,
     frontier_size |-> Cardinality(f.heap) + Cardinality(f.delay_heap),
     cached_failures |-> CacheSize(es)]

\* the end of an iteration or of run(): RunLoop.checkpoint() if it is due
\* (frontier.save, failure_cache.save, _save_metrics, _write_summary), on the
\* failure cache es with the dirty flag d, the metrics m and the failure
\* hosts fh the iteration has produced
Checkpoint(due, es, d, m, fh) ==
    LET cleaned == CacheCleanup(es, expiry_seconds, now)
        saved == SavedMetrics(m, cleaned, fh)
    IN  /\ frontier_file' = IF due THEN ExportState(FrontierNext) ELSE frontier_file
        /\ entries' = IF due THEN cleaned ELSE es
        /\ entries_file' = IF due /\ (d \/ cleaned # es) THEN cleaned ELSE entries_file
        /\ dirty' = IF due THEN FALSE ELSE d
        /\ metrics' = IF due THEN saved ELSE m
        /\ metrics_file' = IF due THEN saved ELSE metrics_file
        /\ summary_file' = IF due THEN Summary(saved, FrontierNext, cleaned) ELSE summary_file

\* the checkpoint_interval argument taken as it is
CheckpointIntervalAsGiven(arg) == arg

\* checkpoint_interval as RunLoop.__init__ stores it
CheckpointInterval(arg) == Max(1, arg)

\* the checkpoint_interval RunLoop is constructed with
IntervalArgs == {0, 2}

NoSeeds == [called |-> FALSE, skipped_count |-> 0, cached_seeds |-> 0, enqueued_cached |-> {}]

RunInit ==
    /\ robots_cache = {}
    /\ raw_store = {}
    /\ excerpt_store = {}
    /\ graph_scores = {}
    /\ last_step = NoStep
    /\ last_seeds = NoSeeds
    /\ failure_hosts = [h \in Hosts |-> 0]
    /\ loop = NewLoop
    /\ telemetry = NoTelemetry
    /\ metrics = NewMetrics
    /\ metrics_file = NoReport
    /\ summary_file = NoReport
    /\ crashes = 0

\* ------------------------------------------------------------------------
\* Initial state: a freshly constructed Frontier
\* ------------------------------------------------------------------------
\* url: the URL the pop returned; in_backoff: its host's backoff was in the
\* future; consumed: refilled token count minus the count left after the pop;
\* gap: time since the previous pop that returned a URL of the host (-1: none);
\* waiting: some host was in backoff and a job of another host that had a
\* token was pending; ready: such a job was in the main heap or due in the
\* delay heap; top_pending: the first job, in the order (priority, order), among
\* the pending jobs whose host had a token; top_ready: the same among the jobs
\* in the main heap or due in the delay heap; tied, outranked: another such
\* job had the priority of top_ready, a lower one
NoPop == [url |-> None, in_backoff |-> FALSE, consumed |-> 0, gap |-> 0 - 1,
          waiting |-> FALSE, ready |-> FALSE, top_pending |-> None, top_ready |-> None,
          tied |-> FALSE, outranked |-> FALSE]

FrontierInit ==
    /\ heap = {}
    /\ delay_heap = {}
    /\ seen = {}
    /\ order = 0
    /\ host_buckets = [h \in Hosts |-> NoBucket]
    /\ host_backoff = [h \in Hosts |-> 0]
    /\ inflight = {}
    /\ last_pop = NoPop
    /\ popped_at = [h \in Hosts |-> 0]

Init ==
    /\ now = 1
    /\ settings \in SettingsChoices
    /\ FrontierInit
    /\ TorInit
    /\ CacheInit
    /\ expiry_seconds = NoExpiry
    /\ RunInit
    /\ ComponentInit

\* ------------------------------------------------------------------------
\* Frontier operations
\* ------------------------------------------------------------------------
Tick ==
    /\ now < MaxTime
    /\ now' = now + 1
    /\ UNCHANGED <<settings, componentVars, frontierVars, historyVars, torVars, cacheVars, runVars>>

Add ==
    \E url \in URLS \cup BadURLS, prio \in ExplicitPriorities(settings) \cup {NoPriority} :
        \E r \in {FrontierAdd(AddState, settings, now, url, prio)} :
            /\ heap' = r.heap
            /\ seen' = r.seen
            /\ order' = r.order
            /\ host_buckets' = r.host_buckets
            /\ UNCHANGED <<now, settings, componentVars, delay_heap, host_backoff, inflight, historyVars, torVars, cacheVars, runVars>>

ExtendItems ==
    UNION {[1..n -> URLS] : n \in 1..MaxExtend}

Extend ==
    \E items \in ExtendItems :
        \E r \in {FrontierExtend(AddState, settings, now, items)} :
            /\ heap' = r.heap
            /\ seen' = r.seen
            /\ order' = r.order
            /\ host_buckets' = r.host_buckets
            /\ UNCHANGED <<now, settings, componentVars, delay_heap, host_backoff, inflight, historyVars, torVars, cacheVars, runVars>>

\* the hosts pop() would find a token for at time t
HostsWithToken(buckets, backoff, s, t) ==
    {h \in Hosts : ConsumeHostToken(buckets, backoff, s, h, t).ok}

\* the URL of the job of a set that has the highest priority and, among
\* those, was enqueued first
TopURL(jobs) ==
    IF jobs = {} THEN None
    ELSE (CHOOSE j \in jobs : \A k \in jobs \ {j} :
              \/ 0 - j.priority > 0 - k.priority
              \/ (j.priority = k.priority /\ j.order < k.order)).url

Pop ==
    \E r \in {FrontierPop(FrontierState, settings, now)} :
    LET h == HostOf(r.url)
        open == HostsWithToken(host_buckets, host_backoff, settings, now)
        pending == {j \in heap \cup {d.job : d \in delay_heap} : j.host \in open}
        due == {j \in PromoteReadyJobs(FrontierState, now).heap : j.host \in open}
    IN  /\ heap' = r.st.heap
        /\ delay_heap' = r.st.delay_heap
        /\ host_buckets' = r.st.host_buckets
        /\ inflight' = r.st.inflight
        /\ last_pop' =
              [url |-> r.url,
               in_backoff |-> r.url # None /\ host_backoff[h] > now,
               consumed |-> IF r.url = None THEN 0
                            ELSE r.refilled - r.st.host_buckets[h].tokens,
               gap |-> IF r.url = None \/ popped_at[h] = 0 THEN 0 - 1 ELSE now - popped_at[h],
               waiting |-> \E g \in Hosts, j \in heap \cup {d.job : d \in delay_heap} :
                               host_backoff[g] > now /\ j.host # g /\ j.host \in open,
               ready |-> \E g \in Hosts, j \in PromoteReadyJobs(FrontierState, now).heap :
                               host_backoff[g] > now /\ j.host # g /\ j.host \in open,
               top_pending |-> TopURL(pending),
               top_ready |-> TopURL(due),
               tied |-> \E j \in due, k \in due : j.url # k.url /\ j.url = TopURL(due)
                                                  /\ j.priority = k.priority,
               outranked |-> \E j \in due, k \in due : j.url = TopURL(due)
                                                  /\ j.priority < k.priority]
        /\ popped_at' = IF r.url = None THEN popped_at ELSE [popped_at EXCEPT ![h] = now]
        /\ UNCHANGED <<now, settings, componentVars, seen, order, host_backoff, torVars, cacheVars, runVars>>

\* FeedbackBuckets that hands the token back to the bucket
FeedbackBucketsRefund(buckets, s, url, t) ==
    IF url = "" \/ HostOf(url) = ""
    THEN buckets
    ELSE [buckets EXCEPT ![HostOf(url)] = Bucket(Capacity(s), t)]

\* Frontier.record_feedback: the parts that touch the inflight map and the bucket
FeedbackBuckets(buckets, s, url, t) ==
    IF url = "" \/ HostOf(url) = ""
    THEN buckets
    ELSE [EnsureBucket(buckets, s, HostOf(url), t) EXCEPT ![HostOf(url)].updated_at = t]

\* the URLs the runner and the run loop report on: the ones pop() handed out
Reported == {j.url : j \in inflight} \cup BadURLS

RecordFeedback ==
    \E url \in Reported :
        /\ inflight' = IF url = "" THEN inflight ELSE {j \in inflight : j.url # url}
        /\ host_buckets' = FeedbackBuckets(host_buckets, settings, url, now)
        /\ UNCHANGED <<now, settings, componentVars, heap, delay_heap, seen, order, host_backoff, historyVars,
                       torVars, cacheVars, runVars>>

FailureBackoff(backoff, s, url, t) ==
    IF url = "" \/ HostOf(url) = ""
    THEN backoff
    ELSE [backoff EXCEPT ![HostOf(url)] = Max(backoff[HostOf(url)], t + s.failure_cooldown_seconds)]

FailureBuckets(buckets, s, url, t) ==
    IF url = "" \/ HostOf(url) = ""
    THEN buckets
    ELSE [EnsureBucket(buckets, s, HostOf(url), t) EXCEPT
            ![HostOf(url)] = Bucket(0, t)]

RecordFailure ==
    \E url \in Reported :
        /\ inflight' = IF url = "" THEN inflight ELSE {j \in inflight : j.url # url}
        /\ host_backoff' = FailureBackoff(host_backoff, settings, url, now)
        /\ host_buckets' = FailureBuckets(host_buckets, settings, url, now)
        /\ UNCHANGED <<now, settings, componentVars, heap, delay_heap, seen, order, historyVars, torVars, cacheVars, runVars>>

Next ==
    \/ Tick
    \/ Add
    \/ Pop
    \/ RecordFeedback
    \/ RecordFailure

Spec == Init /\ [][Next]_vars

\* The frontier fed through extend() as well, as add_seeds does, under the
\* first of the settings
InitExtend ==
    /\ Init
    /\ settings = DefaultSettings

NextExtend ==
    \/ Tick
    \/ Add
    \/ Extend
    \/ Pop
    \/ RecordFeedback
    \/ RecordFailure

SpecExtend == InitExtend /\ [][NextExtend]_vars

\* ------------------------------------------------------------------------
\* Frontier.pop pass by pass of its loop, under settings of every kind
\* ------------------------------------------------------------------------
\* the default settings, settings without refill period and penalty, and
\* settings that also give a host no token
PopSettingsChoices ==
    { DefaultSettings,
      [host_token_capacity |-> 5, host_refill_seconds |-> 0,
       host_penalty_seconds |-> 0, failure_cooldown_seconds |-> 3],
      [host_token_capacity |-> 0, host_refill_seconds |-> 0,
       host_penalty_seconds |-> 0, failure_cooldown_seconds |-> 3],
      [host_token_capacity |-> 0, host_refill_seconds |-> 2,
       host_penalty_seconds |-> 0, failure_cooldown_seconds |-> 3] }

InitPop ==
    /\ now = 1
    /\ settings \in PopSettingsChoices
    /\ FrontierInit
    /\ TorInit
    /\ CacheInit
    /\ expiry_seconds = NoExpiry
    /\ RunInit
    /\ ComponentInit

\* the calls between two calls of pop
PopTick == ~pop_call.active /\ Tick
PopAdd == ~pop_call.active /\ Add
PopRecordFeedback == ~pop_call.active /\ RecordFeedback
PopRecordFailure == ~pop_call.active /\ RecordFailure

\* pop() up to its loop: _promote_ready_jobs
PopBegin ==
    /\ ~pop_call.active
    /\ pop_call.calls < MaxPopCalls
    /\ \E st \in {PromoteReadyJobs(FrontierState, now)} :
          /\ heap' = st.heap
          /\ delay_heap' = st.delay_heap
    /\ pop_call' = [NoPopCall EXCEPT !.active = TRUE, !.calls = pop_call.calls + 1]
    /\ UNCHANGED <<now, settings, seen, order, host_buckets, host_backoff, inflight,
                   historyVars, torVars, cacheVars, runVars, cascadeVars, scoringVars,
                   crumbVars, persistVars, graphVars, banditVars, canonVars, fetcher,
                   cascade_log, tor_log>>

\* one pass of the loop of pop()
PopPass ==
    /\ pop_call.active
    /\ \E r \in {PopStep(FrontierState, settings, now)} :
          /\ heap' = r.st.heap
          /\ delay_heap' = r.st.delay_heap
          /\ host_buckets' = r.st.host_buckets
          /\ inflight' = r.st.inflight
          /\ pop_call' =
                [pop_call EXCEPT
                    !.active = ~r.done,
                    !.url = r.url,
                    !.deferred = IF r.deferred = None THEN @
                                 ELSE [@ EXCEPT ![r.deferred] = Min(@ + 1, MaxDeferrals)]]
    /\ UNCHANGED <<now, settings, seen, order, host_backoff, historyVars, torVars, cacheVars,
                   runVars, cascadeVars, scoringVars, crumbVars, persistVars, graphVars,
                   banditVars, canonVars, fetcher, cascade_log, tor_log>>

NextPop ==
    \/ PopTick
    \/ PopAdd
    \/ PopRecordFeedback
    \/ PopRecordFailure
    \/ PopBegin
    \/ PopPass

SpecPop == InitPop /\ [][NextPop]_vars

\* the loop of pop() is not held up
SpecPopFair == SpecPop /\ WF_vars(PopPass)

\* ------------------------------------------------------------------------
\* A frontier that is filled once and then polled: URLs are added at the
\* start only, pop is called again and again, and the clock moves on when pop
\* has nothing to return at the present instant.  Failures are reported for
\* URLs in flight, so there are at most as many as there are URLs.
\* ------------------------------------------------------------------------
LiveSettingsChoices == {DefaultSettings, BurstSettings}

\* the URLs enqueued: two of one host, so that one waits for the other's token
LiveURLS == {"a1", "a2"}

InitLive ==
    /\ Init
    /\ settings \in LiveSettingsChoices

\* add() with the priority the frontier computes, before the polling starts
LiveAdd ==
    /\ now = 1
    /\ pop_call.returned = {}
    /\ \E url \in LiveURLS :
          \E r \in {FrontierAdd(AddState, settings, now, url, NoPriority)} :
              /\ heap' = r.heap
              /\ seen' = r.seen
              /\ order' = r.order
              /\ host_buckets' = r.host_buckets
    /\ UNCHANGED <<now, settings, componentVars, delay_heap, host_backoff, inflight,
                   historyVars, torVars, cacheVars, runVars>>

LiveTick ==
    /\ now < MaxLiveTime
    /\ FrontierPop(FrontierState, settings, now).url = None
    /\ now' = now + 1
    /\ UNCHANGED <<settings, componentVars, frontierVars, historyVars, torVars, cacheVars, runVars>>

\* pop(), with the URLs it has returned and the jobs it put on the delay heap
LivePop ==
    \E r \in {FrontierPop(FrontierState, settings, now)} :
        /\ heap' = r.st.heap
        /\ delay_heap' = r.st.delay_heap
        /\ host_buckets' = r.st.host_buckets
        /\ inflight' = r.st.inflight
        /\ pop_call' =
              [pop_call EXCEPT
                  !.url = r.url,
                  !.returned = IF r.url = None THEN @ ELSE @ \cup {r.url},
                  !.deferred = [u \in URLS |->
                                  IF \E d \in r.st.delay_heap \ delay_heap : d.job.url = u
                                  THEN Min(pop_call.deferred[u] + 1, MaxDeferrals)
                                  ELSE pop_call.deferred[u]]]
        /\ UNCHANGED <<now, settings, seen, order, host_backoff, historyVars, torVars,
                       cacheVars, runVars, cascadeVars, scoringVars, crumbVars, persistVars,
                       graphVars, banditVars, canonVars, fetcher, cascade_log, tor_log>>

NextLive ==
    \/ LiveAdd
    \/ LiveTick
    \/ LivePop
    \/ RecordFeedback
    \/ RecordFailure

SpecLive == InitLive /\ [][NextLive]_vars

\* pop keeps being called and time advances
SpecLiveFair == SpecLive /\ WF_vars(LivePop) /\ WF_vars(LiveTick)

\* ------------------------------------------------------------------------
\* The TorConnector on its own: any order of calls of its public methods
\* ------------------------------------------------------------------------
TorRecordIllegal ==
    \E h \in Hosts :
        /\ blocklist' = TorIllegal(blocklist, h, now)
        /\ blocklist_file' = blocklist'
        /\ illegal_hosts' = illegal_hosts \cup {h}
        /\ UNCHANGED <<now, settings, componentVars, frontierVars, historyVars, host_failures,
                       host_last_request, cacheVars, runVars>>

TorRecordFailure ==
    \E h \in Hosts :
        LET r == TorFailure(blocklist, host_failures, h, now)
        IN  /\ blocklist' = r.blocklist
            /\ host_failures' = r.host_failures
            /\ blocklist_file' = IF r.persisted THEN r.blocklist ELSE blocklist_file
            /\ UNCHANGED <<now, settings, componentVars, frontierVars, historyVars, host_last_request,
                           illegal_hosts, cacheVars, runVars>>

TorRecordSuccess ==
    \E h \in Hosts :
        /\ host_failures' = [host_failures EXCEPT ![h] = 0]
        /\ host_last_request' = [host_last_request EXCEPT ![h] = now]
        /\ UNCHANGED <<now, settings, componentVars, frontierVars, historyVars, blocklist, blocklist_file,
                       illegal_hosts, cacheVars, runVars>>

TorBeforeRequest ==
    \E h \in Hosts :
        LET r == EnsureNotBlocked(blocklist, h, now)
        IN  /\ blocklist' = r.blocklist
            /\ blocklist_file' = IF r.persisted THEN r.blocklist ELSE blocklist_file
            /\ UNCHANGED <<now, settings, componentVars, frontierVars, historyVars, host_failures,
                           host_last_request, illegal_hosts, cacheVars, runVars>>

\* a new TorConnector on the same blocklist_path
TorReload ==
    /\ blocklist' = LoadBlocklist(blocklist_file, now)
    /\ host_failures' = [h \in Hosts |-> 0]
    /\ host_last_request' = [h \in Hosts |-> 0]
    /\ UNCHANGED <<now, settings, componentVars, frontierVars, historyVars, blocklist_file, illegal_hosts,
                   cacheVars, runVars>>

InitTor ==
    /\ Init
    /\ settings = DefaultSettings

NextTor ==
    \/ Tick
    \/ TorRecordIllegal
    \/ TorRecordFailure
    \/ TorRecordSuccess
    \/ TorBeforeRequest
    \/ TorReload

SpecTor == InitTor /\ [][NextTor]_vars

\* ------------------------------------------------------------------------
\* The TorConnector with the history of its calls, for one host
\* ------------------------------------------------------------------------
LoggedHosts == {"b.onion"}

TorLoggedIllegal ==
    \E h \in LoggedHosts :
        /\ blocklist' = TorIllegal(blocklist, h, now)
        /\ blocklist_file' = blocklist'
        /\ illegal_hosts' = illegal_hosts \cup {h}
        /\ tor_log' = [tor_log EXCEPT !.call = [NoTorCall EXCEPT !.op = "record_illegal",
                                                                !.host = h]]
        /\ UNCHANGED <<now, settings, torComponentVars, frontierVars, historyVars,
                       host_failures, host_last_request, cacheVars, runVars>>

TorLoggedFailure ==
    \E h \in LoggedHosts :
        LET r == TorFailure(blocklist, host_failures, h, now)
        IN  /\ blocklist' = r.blocklist
            /\ host_failures' = r.host_failures
            /\ blocklist_file' = IF r.persisted THEN r.blocklist ELSE blocklist_file
            /\ tor_log' =
                  [streak |-> [tor_log.streak EXCEPT ![h] = Min(@ + 1, MaxStreak)],
                   counted |-> [tor_log.counted EXCEPT
                                   ![h] = IF r.persisted THEN 0 ELSE Min(@ + 1, MaxStreak)],
                   block_end |-> [tor_log.block_end EXCEPT
                                     ![h] = IF r.persisted THEN r.blocklist[h].blocked_until
                                            ELSE @],
                   call |-> [op |-> "record_failure", host |-> h, raises |-> "",
                             blocked |-> r.persisted,
                             was_blocked |-> blocklist[h].present /\ IsActive(blocklist[h], now),
                             was_expired |-> FALSE,
                             nth |-> Min(tor_log.counted[h] + 1, MaxStreak),
                             streak |-> Min(tor_log.streak[h] + 1, MaxStreak)]]
            /\ UNCHANGED <<now, settings, torComponentVars, frontierVars, historyVars,
                           host_last_request, illegal_hosts, cacheVars, runVars>>

TorLoggedSuccess ==
    \E h \in LoggedHosts :
        /\ host_failures' = [host_failures EXCEPT ![h] = 0]
        /\ host_last_request' = [host_last_request EXCEPT ![h] = now]
        /\ tor_log' = [tor_log EXCEPT !.streak[h] = 0, !.counted[h] = 0,
                                      !.call = [NoTorCall EXCEPT !.op = "record_success",
                                                                !.host = h]]
        /\ UNCHANGED <<now, settings, torComponentVars, frontierVars, historyVars, blocklist,
                       blocklist_file, illegal_hosts, cacheVars, runVars>>

TorLoggedBeforeRequest ==
    \E h \in LoggedHosts :
        LET r == EnsureNotBlocked(blocklist, h, now)
        IN  /\ blocklist' = r.blocklist
            /\ blocklist_file' = IF r.persisted THEN r.blocklist ELSE blocklist_file
            /\ tor_log' = [tor_log EXCEPT
                              !.call = [op |-> "before_request", host |-> h,
                                        raises |-> r.raises, blocked |-> FALSE,
                                        was_blocked |-> blocklist[h].present
                                                        /\ IsActive(blocklist[h], now),
                                        was_expired |-> blocklist[h].present
                                                        /\ ~IsActive(blocklist[h], now),
                                        nth |-> 0, streak |-> 0]]
            /\ UNCHANGED <<now, settings, torComponentVars, frontierVars, historyVars,
                           host_failures, host_last_request, illegal_hosts, cacheVars, runVars>>

\* a new TorConnector on the same blocklist_path, with the history of its calls
TorLoggedReload ==
    /\ blocklist' = LoadBlocklist(blocklist_file, now)
    /\ host_failures' = [h \in Hosts |-> 0]
    /\ host_last_request' = [h \in Hosts |-> 0]
    /\ tor_log' = [tor_log EXCEPT !.streak = [h \in Hosts |-> 0],
                                  !.counted = [h \in Hosts |-> 0],
                                  !.call = [NoTorCall EXCEPT !.op = "reload"]]
    /\ UNCHANGED <<now, settings, torComponentVars, frontierVars, historyVars, blocklist_file,
                   illegal_hosts, cacheVars, runVars>>

NextTorLogged ==
    \/ Tick
    \/ TorLoggedIllegal
    \/ TorLoggedFailure
    \/ TorLoggedSuccess
    \/ TorLoggedBeforeRequest
    \/ TorLoggedReload

SpecTorLogged == InitTor /\ [][NextTorLogged]_vars

\* ------------------------------------------------------------------------
\* The FailureCache on its own: any order of calls of its public methods
\* ------------------------------------------------------------------------
\* the URLs the cache is called with when it is exercised on its own
CacheURLS == {"a1", "b1"}

CacheRecord ==
    \E url \in CacheURLS, status \in Statuses :
        /\ entries' = CacheRecorded(entries, url, status, now)
        /\ dirty' = TRUE
        /\ last_skip' = NoSkipCall
        /\ UNCHANGED <<now, settings, componentVars, frontierVars, historyVars, torVars, entries_file,
                       expiry_seconds, runVars>>

CacheShouldSkip ==
    \E url \in CacheURLS :
        LET r == ShouldSkip(entries, expiry_seconds, url, now)
        IN  /\ entries' = r.entries
            /\ dirty' = (dirty \/ r.entries # entries)
            /\ last_skip' = [url |-> url, at |-> now, entry |-> entries[url], result |-> r.skip]
            /\ UNCHANGED <<now, settings, componentVars, frontierVars, historyVars, torVars, entries_file,
                           expiry_seconds, runVars>>

\* FailureCache.save: cleanup, then the file is rewritten when the cache is dirty
CacheSave ==
    LET cleaned == CacheCleanup(entries, expiry_seconds, now)
        is_dirty == dirty \/ cleaned # entries
    IN  /\ entries' = cleaned
        /\ entries_file' = IF is_dirty THEN cleaned ELSE entries_file
        /\ dirty' = FALSE
        /\ last_skip' = NoSkipCall
        /\ UNCHANGED <<now, settings, componentVars, frontierVars, historyVars, torVars, expiry_seconds, runVars>>

\* a new FailureCache on the same path
CacheLoad ==
    /\ entries' = LoadEntries(entries_file, expiry_seconds, now)
    /\ dirty' = FALSE
    /\ last_skip' = NoSkipCall
    /\ UNCHANGED <<now, settings, componentVars, frontierVars, historyVars, torVars, entries_file,
                   expiry_seconds, runVars>>

InitCache ==
    /\ now = 1
    /\ settings = DefaultSettings
    /\ FrontierInit
    /\ TorInit
    /\ CacheInit
    /\ expiry_seconds \in ExpiryChoices
    /\ RunInit
    /\ ComponentInit

NextCache ==
    \/ Tick
    \/ CacheRecord
    \/ CacheShouldSkip
    \/ CacheSave
    \/ CacheLoad

SpecCache == InitCache /\ [][NextCache]_vars

\* ------------------------------------------------------------------------
\* The run loop: seeding and loop iterations
\* ------------------------------------------------------------------------
\* the seeds that pass the should_skip filter, and the entries the calls leave
RECURSIVE FilterSeeds(_, _, _, _)
FilterSeeds(es, expiry, items, t) ==
    IF items = <<>>
    THEN [items |-> <<>>, entries |-> es]
    ELSE LET k == ShouldSkip(es, expiry, Head(items), t)
             rest == FilterSeeds(k.entries, expiry, Tail(items), t)
         IN  IF k.skip
             THEN rest
             ELSE [rest EXCEPT !.items = <<Head(items)>> \o rest.items]

\* the seeding of RunLoop.run(seeds): the filter and the seed_skipped event of
\* the run loop, then OddcrawlerRunner.add_seeds with its own filter and
\* frontier.extend; the loop was constructed with checkpoint_interval arg
RunSeeds ==
    /\ loop.phase = "new"
    /\ \E items \in ExtendItems \cup {<<>>}, max_pages \in MaxPagesChoices,
          arg \in IntervalArgs :
       \E first \in {FilterSeeds(entries, expiry_seconds, items, now)} :
       \E second \in {FilterSeeds(first.entries, expiry_seconds, first.items, now)} :
       \E r \in {FrontierExtend(AddState, settings, now, second.items)} :
        LET skipped == Len(items) - Len(first.items)
            cached == {i \in 1..Len(items) :
                          ShouldSkip(entries, expiry_seconds, items[i], now).skip}
        IN  /\ heap' = r.heap
            /\ seen' = r.seen
            /\ order' = r.order
            /\ host_buckets' = r.host_buckets
            /\ entries' = second.entries
            /\ dirty' = (dirty \/ second.entries # entries)
            /\ last_seeds' =
                  [called |-> TRUE,
                   skipped_count |-> skipped,
                   cached_seeds |-> Cardinality(cached),
                   enqueued_cached |-> {items[i] : i \in cached} \cap (r.seen \ seen)]
            /\ loop' = [loop EXCEPT !.phase = "running", !.max_pages = max_pages,
                                    !.checkpoint_interval = CheckpointInterval(arg)]
            /\ telemetry' = IF skipped > 0 THEN LogEvent(telemetry, "seed_skipped")
                            ELSE telemetry
            /\ UNCHANGED <<now, settings, componentVars, delay_heap, host_backoff, inflight, historyVars,
                           torVars, entries_file, expiry_seconds, last_skip, robots_cache,
                           raw_store, excerpt_store, graph_scores, last_step, failure_hosts,
                           metrics, metrics_file, summary_file, crashes>>

\* what the network answers in one iteration: the answer of robots.txt, the
\* attempts of the fetch and the page; what is never looked at is fixed
CleanPage == [body_illegal |-> FALSE, cascade_skip |-> FALSE, text_illegal |-> FALSE, score |-> 20]

NoInput == [allowed |-> FALSE, tries |-> [n_fail |-> 0, err |-> "neterr"], page |-> CleanPage]

StepInputs ==
    {in \in [allowed : BOOLEAN, tries : Attempts, page : Pages] :
        /\ ~in.allowed => in.tries = NoInput.tries
        /\ (~in.allowed \/ in.tries.n_fail > Retries) => in.page = CleanPage}

\* the outbound links of a fetched page: the other URLs
PageLinks(url) == URLS \ {url}

\* a step that hands the outbound links of a scored page to frontier.add
StepAddsLinks(kind, url) == IF kind = "scored" THEN PageLinks(url) ELSE {}

\* the URLs OddcrawlerRunner.step hands to frontier.add or frontier.extend:
\* none; on the frontier it calls pop and record_feedback only
StepAdds(kind, url) == {}

\* one iteration of the loop of RunLoop.run: OddcrawlerRunner.step, then the
\* handling of its result or of the exception it raised
Step ==
    /\ loop.phase = "running"
    /\ LoopGoesOn(loop)
    /\ \E p \in {RunnerPop(FrontierState, entries, expiry_seconds, settings, now)} :
       \E in \in IF p.url = None THEN {NoInput} ELSE StepInputs :
       \E f \in {IF p.url = None
                  THEN NotFetched(robots_cache, blocklist, host_failures, host_last_request)
                  ELSE Fetch(p.url, robots_cache, blocklist, host_failures, host_last_request,
                             now, in.allowed, in.tries.n_fail, in.tries.err)} :
           LET url == p.url
               host == HostOf(url)
               kind == IF url = None THEN "empty"
                       ELSE IF f.outcome = "ok" THEN PageKind(in.page)
                       ELSE f.outcome
               listing == kind \in ResultKinds /\ RecordsIllegal(kind)
               bl == IF url = None THEN blocklist
                     ELSE IF listing THEN TorIllegal(f.blocklist, host, now)
                     ELSE f.blocklist
               done == kind \in ResultKinds \/ ReportsFailure(kind)
               action == IF kind \in ResultKinds THEN DecisionAction(kind, in.page) ELSE ""
               recorded == IF CachesFailure(kind)
                           THEN CacheRecorded(p.entries, url, 404, now)
                           ELSE p.entries
               cache_grew == CacheSize(recorded) > CacheSize(entries)
               events == (IF kind \in ResultKinds THEN {PageEvent(action)} ELSE {})
                         \cup (IF kind \in ResultKinds /\ cache_grew
                               THEN {"url_failure_cached"} ELSE {})
                         \cup (IF kind = "http404" THEN {"url_404"} ELSE {})
                         \cup (IF kind \in {"robots", "tor_blocked", "http500", "neterr"}
                               THEN {"error"} ELSE {})
               counted == IF kind = "http404"
                          THEN [failure_hosts EXCEPT ![host] = failure_hosts[host] + 1]
                          ELSE failure_hosts
               updated == IF kind \in ResultKinds THEN UpdateMetrics(metrics, action)
                          ELSE IF "error" \in events THEN RecordError(metrics)
                          ELSE metrics
               interval_reached ==
                   /\ kind \in ResultKinds
                   /\ loop.since_checkpoint + 1 >= loop.checkpoint_interval
               due == interval_reached \/ kind = "empty"
           IN  /\ UNCHANGED <<now, settings, cascadeVars, scoringVars, crumbVars, host_maps,
                              popped_before_restart, last_restore, graphVars, banditVars,
                              canonVars, fetchVars, order, historyVars, expiry_seconds, last_skip,
                              last_seeds, crashes>>
               /\ seen' = seen \cup StepAdds(kind, url)
               /\ heap' = p.st.heap
               /\ delay_heap' = p.st.delay_heap
               /\ inflight' = IF done THEN {j \in p.st.inflight : j.url # url} ELSE p.st.inflight
               /\ host_buckets' =
                     IF kind \in ResultKinds
                     THEN FeedbackBuckets(p.st.host_buckets, settings, url, now)
                     ELSE IF ReportsFailure(kind)
                     THEN FailureBuckets(p.st.host_buckets, settings, url, now)
                     ELSE p.st.host_buckets
               /\ host_backoff' =
                     IF ReportsFailure(kind)
                     THEN FailureBackoff(p.st.host_backoff, settings, url, now)
                     ELSE p.st.host_backoff
               /\ failure_hosts' = counted
               /\ telemetry' = [e \in EventKinds |->
                                   IF e \in events THEN telemetry[e] + 1 ELSE telemetry[e]]
               /\ Checkpoint(due, recorded,
                             dirty \/ p.entries # entries \/ CachesFailure(kind),
                             updated, counted)
               /\ loop' = IF kind = "empty"
                          THEN [loop EXCEPT !.phase = "returned", !.exit = "exhausted",
                                            !.since_checkpoint = 0]
                          ELSE IF kind \in ResultKinds
                          THEN [loop EXCEPT !.processed = loop.processed + 1,
                                            !.since_checkpoint =
                                                IF interval_reached THEN 0 ELSE @ + 1]
                          ELSE loop
               /\ robots_cache' = IF url = None THEN robots_cache ELSE f.robots_cache
               /\ blocklist' = bl
               /\ blocklist_file' = IF url # None /\ (listing \/ f.persisted)
                                    THEN bl ELSE blocklist_file
               /\ host_failures' = IF url = None THEN host_failures ELSE f.host_failures
               /\ host_last_request' =
                     IF url = None THEN host_last_request ELSE f.host_last_request
               /\ illegal_hosts' = IF listing THEN illegal_hosts \cup {host} ELSE illegal_hosts
               /\ raw_store' = IF kind \in ResultKinds /\ WritesRaw(kind)
                               THEN raw_store \cup {url} ELSE raw_store
               /\ excerpt_store' = IF kind \in ResultKinds /\ WritesExcerpt(kind)
                                   THEN excerpt_store \cup {url} ELSE excerpt_store
               /\ graph_scores' = IF kind \in ResultKinds /\ UpdatesGraph(kind)
                                  THEN graph_scores \cup {url} ELSE graph_scores
               /\ last_step' =
                     [kind |-> kind,
                      url |-> url,
                      action |-> IF kind \in ResultKinds THEN DecisionAction(kind, in.page) ELSE "",
                      score |-> IF kind \in ResultKinds THEN DecisionScore(kind, in.page) ELSE 0,
                      feedback |-> IF kind \in ResultKinds THEN DecisionScore(kind, in.page)
                                   ELSE 0 - 1,
                      raw |-> kind \in ResultKinds /\ WritesRaw(kind),
                      excerpt |-> kind \in ResultKinds /\ WritesExcerpt(kind),
                      graph |-> kind \in ResultKinds /\ UpdatesGraph(kind),
                      skipped |-> p.skipped,
                      cached |-> url # None
                                 /\ ShouldSkip(entries, expiry_seconds, url, now).skip,
                      dispatched_blocked |-> url # None /\ f.dispatched_blocked,
                      listed |-> url # None /\ bl[host].present /\ bl[host].reason = "illegal",
                      event |-> IF kind = "http404" THEN "url_404"
                                ELSE IF kind \in {"robots", "tor_blocked", "http500", "neterr"}
                                THEN "error"
                                ELSE "",
                      cache_status |-> IF url # None /\ entries'[url].present
                                       THEN entries'[url].status ELSE NoStatus,
                      counted |-> IF url = None THEN 0
                                  ELSE failure_hosts'[host] - failure_hosts[host],
                      in_backoff |-> url # None /\ host_backoff'[host] > now,
                      inflight |-> url \in {j.url : j \in inflight'},
                      running |-> loop'.phase = "running",
                      feedback_action |-> IF kind \in ResultKinds
                                          THEN DecisionAction(kind, in.page) ELSE "",
                      feedback_cascade |-> IF kind \in ResultKinds
                                           THEN FeedbackCascadeSkip(kind) ELSE None,
                      events |-> events,
                      cache_grew |-> cache_grew,
                      checkpointed |-> due]

\* a Frontier just constructed
NewFrontier ==
    [heap |-> {}, seen |-> {}, order |-> 0, host_buckets |-> [h \in Hosts |-> NoBucket],
     host_backoff |-> [h \in Hosts |-> 0]]

\* what RunLoop is constructed on: the failures an earlier run left in
\* failures.json (recorded at time 0) and the URLs put into the frontier with
\* frontier.add before the loop starts
RunStarts ==
    { [failed |-> {}, queued |-> <<>>],
      [failed |-> {"a2"}, queued |-> <<>>],
      [failed |-> {"a2"}, queued |-> <<"a2">>] }

InitRun ==
    \E start \in RunStarts :
        LET st == FrontierExtend(NewFrontier, BurstSettings, 1, start.queued)
            loaded == [u \in URLS |->
                          IF u \in start.failed
                          THEN [present |-> TRUE, status |-> 404, last_recorded_at |-> 0]
                          ELSE NoEntry]
        IN  /\ now = 1
            /\ settings = BurstSettings
            /\ heap = st.heap
            /\ seen = st.seen
            /\ order = st.order
            /\ host_buckets = st.host_buckets
            /\ host_backoff = st.host_backoff
            /\ delay_heap = {}
            /\ inflight = {}
            /\ last_pop = NoPop
            /\ popped_at = [h \in Hosts |-> 0]
            /\ TorInit
            /\ entries = loaded
            /\ entries_file = loaded
            /\ dirty = FALSE
            /\ last_skip = NoSkipCall
            /\ expiry_seconds = NoExpiry
            /\ RunInit
            /\ ComponentInit

\* RunLoop.request_stop, called from a signal handler
RequestStop ==
    /\ ~loop.stop_requested
    /\ loop' = [loop EXCEPT !.stop_requested = TRUE]
    /\ UNCHANGED <<now, settings, componentVars, frontierVars, historyVars, torVars, cacheVars, robots_cache,
                   raw_store, excerpt_store, graph_scores, last_step, last_seeds,
                   failure_hosts, reportVars>>

\* the while loop of run() ends because its condition is false; the
\* finally block takes the last checkpoint
FinishRun ==
    /\ loop.phase = "running"
    /\ ~LoopGoesOn(loop)
    /\ loop' = [loop EXCEPT !.phase = "returned",
                            !.exit = IF loop.stop_requested THEN "stop" ELSE "max_pages",
                            !.since_checkpoint = 0]
    /\ UNCHANGED <<now, settings, cascadeVars, scoringVars, crumbVars, host_maps,
                   popped_before_restart, last_restore, graphVars, banditVars, canonVars, fetchVars,
                   frontierVars, historyVars, torVars, expiry_seconds, last_skip, robots_cache,
                   raw_store, excerpt_store, graph_scores, last_step, last_seeds,
                   failure_hosts, telemetry, crashes>>
    /\ Checkpoint(TRUE, entries, dirty, metrics, failure_hosts)

\* time passes during a run
TickRun ==
    /\ now < MaxRunTime
    /\ Tick

NextRun ==
    \/ TickRun
    \/ RunSeeds
    \/ Step
    \/ RequestStop
    \/ FinishRun

SpecRun == InitRun /\ [][NextRun]_vars

\* run() is not held up once its loop condition is false: the finally block
\* follows the loop
SpecRunFair == SpecRun /\ WF_vars(FinishRun)

\* ------------------------------------------------------------------------
\* The run loop with a process that can be killed and started again on the
\* same run directory (scripts/run_pipeline.py)
\* the process is killed while run() is in its loop, outside a checkpoint:
\* the files stay as they are
Crash ==
    /\ loop.phase = "running"
    /\ crashes < MaxCrashes
    /\ loop' = [loop EXCEPT !.phase = "crashed"]
    /\ crashes' = crashes + 1
    /\ UNCHANGED <<now, settings, componentVars, frontierVars, historyVars, torVars, cacheVars,
                   robots_cache, raw_store, excerpt_store, graph_scores, last_step,
                   last_seeds, failure_hosts, telemetry, metrics, metrics_file,
                   summary_file>>

\* the files checkpoint() writes by opening them with mode "w"
CrashPoints == {"frontier", "metrics", "summary"}

\* the process is killed inside the checkpoint of the finally block of run(),
\* while the file named by point is being written: the files before it are
\* complete, that file is cut off, the files after it are untouched
CrashInCheckpoint ==
    /\ loop.phase = "running"
    /\ ~LoopGoesOn(loop)
    /\ crashes < MaxCrashes
    /\ \E point \in CrashPoints, cut \in TruncatedFiles :
          LET cleaned == CacheCleanup(entries, expiry_seconds, now)
              saved == SavedMetrics(metrics, cleaned, failure_hosts)
              reached == point # "frontier"
          IN  /\ frontier_file' = IF point = "frontier" THEN cut
                                  ELSE ExportState(FrontierObject)
              /\ entries' = IF reached THEN cleaned ELSE entries
              /\ entries_file' = IF reached /\ (dirty \/ cleaned # entries)
                                 THEN cleaned ELSE entries_file
              /\ dirty' = IF reached THEN FALSE ELSE dirty
              /\ metrics' = IF reached THEN saved ELSE metrics
              /\ metrics_file' = IF point = "metrics" THEN cut
                                 ELSE IF point = "summary" THEN saved
                                 ELSE metrics_file
              /\ summary_file' = IF point = "summary" THEN cut ELSE summary_file
    /\ loop' = [loop EXCEPT !.phase = "crashed"]
    /\ crashes' = crashes + 1
    /\ UNCHANGED <<now, settings, cascadeVars, scoringVars, crumbVars, host_maps,
                   popped_before_restart, last_restore, graphVars, banditVars, canonVars, fetchVars,
                   frontierVars, historyVars, torVars, expiry_seconds, last_skip, robots_cache,
                   raw_store, excerpt_store, graph_scores, last_step, last_seeds,
                   failure_hosts, telemetry>>

\* main() of run_pipeline.py on the run directory of a killed process:
\* Frontier.load if frontier.json exists, a new runner, RunLoop.__init__ with
\* _load_metrics; a file that is not complete JSON ends the process with a
\* JSONDecodeError
Restart ==
    /\ loop.phase = "crashed"
    /\ IF frontier_file \in TruncatedFiles \/ metrics_file \in TruncatedFiles
       THEN /\ loop' = [loop EXCEPT !.phase = "failed"]
            /\ UNCHANGED <<now, settings, componentVars, frontierVars, historyVars, torVars,
                           cacheVars, robots_cache, raw_store, excerpt_store, graph_scores,
                           last_step, last_seeds, failure_hosts, reportVars>>
       ELSE \E f \in {IF frontier_file = NoFile
                       THEN NewFrontier @@ [delay_heap |-> {}, maps |-> NoFeedbackMaps,
                                            settings |-> settings]
                       ELSE FromState(frontier_file)} :
            \E loaded \in {IF metrics_file = NoReport THEN NewMetrics ELSE metrics_file} :
               /\ heap' = f.heap
               /\ delay_heap' = f.delay_heap
               /\ seen' = f.seen
               /\ order' = f.order
               /\ host_buckets' = f.host_buckets
               /\ host_backoff' = f.host_backoff
               /\ host_maps' = f.maps
               /\ settings' = f.settings
               /\ inflight' = {}
               /\ blocklist' = LoadBlocklist(blocklist_file, now)
               /\ host_failures' = [h \in Hosts |-> 0]
               /\ host_last_request' = [h \in Hosts |-> 0]
               /\ entries' = LoadEntries(entries_file, expiry_seconds, now)
               /\ dirty' = FALSE
               /\ robots_cache' = {}
               /\ metrics' = loaded
               /\ failure_hosts' = loaded.failure_hosts
               /\ loop' = NewLoop
               /\ last_step' = NoStep
               /\ last_seeds' = NoSeeds
               /\ UNCHANGED <<now, cascadeVars, scoringVars, crumbVars, frontier_file,
                              popped_before_restart, last_restore, graphVars, banditVars,
                              canonVars, fetchVars, historyVars, blocklist_file, illegal_hosts,
                              entries_file, expiry_seconds, last_skip, raw_store,
                              excerpt_store, graph_scores, telemetry, metrics_file,
                              summary_file, crashes>>

\* the clock stands still and no stop is requested
NextCrash ==
    \/ RunSeeds
    \/ Step
    \/ FinishRun
    \/ Crash
    \/ CrashInCheckpoint
    \/ Restart

\* a run directory without failures of an earlier run
InitCrash ==
    /\ InitRun
    /\ entries_file = [u \in URLS |-> NoEntry]

SpecCrash == InitCrash /\ [][NextCrash]_vars

\* ------------------------------------------------------------------------
\* The triage cascade on its own
\* TriageCascade.__init__ with a configuration
CascadeNew ==
    \E cfg \in CascadeConfigs :
        /\ cascade_config' = cfg
        /\ simhash_seen' = {}
        /\ last_decision' = NoDecision
        /\ UNCHANGED <<now, settings, frontierVars, historyVars, torVars, cacheVars, runVars,
                       scoringVars, crumbVars, persistVars, graphVars, banditVars, canonVars, fetchVars>>

\* TriageCascade.evaluate(fetch_result)
CascadeEvaluate ==
    \E page \in CascadePages :
        \E d \in {Evaluate(cascade_config, simhash_seen, page)} :
            /\ simhash_seen' = d.simhash_seen
            /\ last_decision' = [should_skip |-> d.should_skip, stages |-> d.stages,
                                 final_reason |-> d.final_reason]
            /\ UNCHANGED <<now, settings, frontierVars, historyVars, torVars, cacheVars,
                           runVars, cascade_config, scoringVars,
                           crumbVars, persistVars, graphVars, banditVars, canonVars, fetchVars>>

InitCascade ==
    /\ Init
    /\ settings = DefaultSettings

NextCascade ==
    \/ CascadeNew
    \/ CascadeEvaluate

SpecCascade == InitCascade /\ [][NextCascade]_vars

\* ------------------------------------------------------------------------
\* The triage cascade with the history of its evaluations, on a few pages
\* ------------------------------------------------------------------------
\* pages that end at the head stage, the keyword stage, the classifier, the
\* prefilter, or pass, each with either fingerprint
MemoPages ==
    {p \in CascadePages :
        /\ p.content_type \in {"text/html", "image/png"}
        /\ p.content_length = 3
        /\ p.body = "html"
        /\ p.script_ratio = 5 /\ p.anchor_ratio = 10 /\ p.text_density = 40
        /\ Len(p.prefilter_reasons) <= 1}

CascadeLoggedNew ==
    \E cfg \in CascadeConfigs :
        /\ cascade_config' = cfg
        /\ simhash_seen' = {}
        /\ last_decision' = NoDecision
        /\ cascade_log' = NoCascadeLog
        /\ UNCHANGED <<now, settings, frontierVars, historyVars, torVars, cacheVars, runVars,
                       scoringVars, crumbVars, persistVars, graphVars, banditVars, canonVars,
                       fetcher, tor_log, pop_call>>

\* TriageCascade.evaluate(fetch_result); the page is marked or the mark is kept
CascadeLoggedEvaluate ==
    \E page \in MemoPages :
        \E d \in {Evaluate(cascade_config, simhash_seen, page)} :
            /\ simhash_seen' = d.simhash_seen
            /\ last_decision' = [should_skip |-> d.should_skip, stages |-> d.stages,
                                 final_reason |-> d.final_reason]
            /\ \E mark \in {cascade_log.mark, page} :
                  cascade_log' =
                      [reached |-> IF Len(d.stages) >= 5
                                   THEN cascade_log.reached \cup {page.fingerprint}
                                   ELSE cascade_log.reached,
                       mark |-> mark,
                       again |-> page = cascade_log.mark,
                       knew |-> Len(d.stages) >= 5 /\ page.fingerprint \in simhash_seen]
            /\ UNCHANGED <<now, settings, frontierVars, historyVars, torVars, cacheVars,
                           runVars, cascade_config, scoringVars, crumbVars, persistVars,
                           graphVars, banditVars, canonVars, fetcher, tor_log, pop_call>>

NextCascadeLogged ==
    \/ CascadeLoggedNew
    \/ CascadeLoggedEvaluate

SpecCascadeLogged == InitCascade /\ [][NextCascadeLogged]_vars

\* ------------------------------------------------------------------------
\* The scoring engine on its own
\* ScoringEngine.__init__ with the thresholds of a scoring.yaml
ScoringNew ==
    \E persist \in ThresholdChoices, llm_gate \in ThresholdChoices, alert \in ThresholdChoices :
        /\ thresholds' = [persist |-> persist, llm_gate |-> llm_gate, alert |-> alert]
        /\ last_scored' = NoScored
        /\ UNCHANGED <<now, settings, frontierVars, historyVars, torVars, cacheVars, runVars,
                       cascadeVars, crumbVars, persistVars, graphVars, banditVars, canonVars, fetchVars>>

\* ScoringEngine.decide(fused_score, reasons)
ScoringDecideCall ==
    \E score \in FusedScores :
        /\ last_scored' = [called |-> TRUE, score |-> score,
                           action |-> ScoringDecide(thresholds, score),
                           thresholds_hit |-> ThresholdsHit(thresholds, score)]
        /\ UNCHANGED <<now, settings, frontierVars, historyVars, torVars, cacheVars, runVars,
                       cascadeVars, thresholds, crumbVars, persistVars, graphVars, banditVars, canonVars, fetchVars>>

InitScoring ==
    /\ Init
    /\ settings = DefaultSettings

NextScoring ==
    \/ ScoringNew
    \/ ScoringDecideCall

SpecScoring == InitScoring /\ [][NextScoring]_vars

\* ------------------------------------------------------------------------
\* The triage orchestrator on its own
\* TriageOrchestrator.__init__ with a storage configuration; what earlier
\* runs wrote stays on disk
TriageNew ==
    \E cfg \in StorageConfigs :
        /\ storage_config' = cfg
        /\ last_handled' = NoHandled
        /\ UNCHANGED <<now, settings, frontierVars, historyVars, torVars, cacheVars, runVars,
                       cascadeVars, scoringVars, breadcrumb_file,
                       persistVars, graphVars, banditVars, canonVars, fetchVars>>

\* TriageOrchestrator.handle_decision(decision, observation=..., finding=...)
TriageHandleDecision ==
    /\ Len(breadcrumb_file) < MaxCrumbs
    /\ \E action \in {"skip", "persist", "llm"}, obs_url \in ObservedURLS,
          finding \in Findings \cup {NoFinding} :
       \E llm \in IF action = "llm" /\ finding = NoFinding
                  THEN LLMOutcomes ELSE {[error |-> ""]} :
       \E r \in {HandleDecision(action, obs_url, finding, llm, storage_config,
                                breadcrumb_file)} :
           /\ excerpt_store' = excerpt_store \cup {obs_url}
           /\ breadcrumb_file' = r.file
           /\ last_handled' = [called |-> TRUE, action |-> action, finding |-> r.finding,
                               enabled |-> storage_config.enabled,
                               sink |-> storage_config.sink,
                               processed |-> r.processed, raises |-> r.raises,
                               persisted |-> r.file # breadcrumb_file]
           /\ UNCHANGED <<now, settings, frontierVars, historyVars, torVars, cacheVars,
                          robots_cache, raw_store, graph_scores, last_step, last_seeds,
                          failure_hosts, loop, reportVars, cascadeVars, scoringVars,
                          storage_config,
                          persistVars, graphVars, banditVars, canonVars, fetchVars>>

InitTriage ==
    /\ Init
    /\ settings = DefaultSettings

NextTriage ==
    \/ TriageNew
    \/ TriageHandleDecision

SpecTriage == InitTriage /\ [][NextTriage]_vars

\* ------------------------------------------------------------------------
\* The frontier across processes: seeded, popped, saved and restored
\* Frontier.save(path)
Save ==
    /\ frontier_file' = ExportState(FrontierObject)
    /\ UNCHANGED <<now, settings, frontierVars, historyVars, torVars, cacheVars, runVars,
                   cascadeVars, scoringVars, crumbVars, host_maps, popped_before_restart,
                   last_restore, graphVars, banditVars, canonVars, fetchVars>>

\* the process ends, stopped or killed, and the next one starts with
\* Frontier.load(path)
Restore ==
    /\ frontier_file # NoFile
    /\ \E f \in {FromState(frontier_file)} :
          /\ order' = f.order
          /\ seen' = f.seen
          /\ heap' = f.heap
          /\ delay_heap' = f.delay_heap
          /\ host_buckets' = f.host_buckets
          /\ host_backoff' = f.host_backoff
          /\ host_maps' = f.maps
          /\ settings' = f.settings
          /\ inflight' = {}
          /\ last_pop' = NoPop
          /\ popped_at' = [h \in Hosts |-> 0]
          /\ popped_before_restart' = popped_before_restart \cup HandedOut(FrontierObject)
          /\ last_restore' = [called |-> TRUE, state |-> frontier_file,
                              exported |-> ExportState(f)]
    /\ UNCHANGED <<now, torVars, cacheVars, runVars, cascadeVars, scoringVars, crumbVars,
                   frontier_file, graphVars, banditVars, canonVars, fetchVars>>

\* a process that starts without a saved frontier, on a frontier that may
\* carry feedback statistics
InitPersist ==
    /\ now = 1
    /\ settings = BurstSettings
    /\ FrontierInit
    /\ TorInit
    /\ CacheInit
    /\ expiry_seconds = NoExpiry
    /\ RunInit
    /\ CascadeInit
    /\ ScoringInit
    /\ CrumbInit
    /\ host_maps \in FeedbackMapChoices
    /\ frontier_file = NoFile
    /\ popped_before_restart = {}
    /\ last_restore = NoRestore
    /\ GraphInit
    /\ BanditInit
    /\ CanonInit
    /\ FetcherInit

\* add_seeds on the frontier of a fresh run, before its first pop
SeedFrontier ==
    /\ order = 0
    /\ Extend

NextPersist ==
    \/ TickRun
    \/ SeedFrontier
    \/ Pop
    \/ RecordFeedback
    \/ RecordFailure
    \/ Save
    \/ Restore

SpecPersist == InitPersist /\ [][NextPersist]_vars

\* ------------------------------------------------------------------------
\* The order of the jobs a frontier hands out, across a save and a load
\* a frontier constructed with the default settings
InitOrder ==
    /\ Init
    /\ settings = DefaultSettings

\* a run ends with its final checkpoint and the next process starts from it:
\* Frontier.save(path), then Frontier.load(path)
SaveAndLoad ==
    \E file \in {ExportState(FrontierObject)} :
    \E f \in {FromState(file)} :
        /\ frontier_file' = file
        /\ order' = f.order
        /\ seen' = f.seen
        /\ heap' = f.heap
        /\ delay_heap' = f.delay_heap
        /\ host_buckets' = f.host_buckets
        /\ host_backoff' = f.host_backoff
        /\ host_maps' = f.maps
        /\ settings' = f.settings
        /\ inflight' = {}
        /\ last_pop' = NoPop
        /\ popped_at' = [h \in Hosts |-> 0]
        /\ popped_before_restart' = popped_before_restart \cup HandedOut(FrontierObject)
        /\ last_restore' = [called |-> TRUE, state |-> file, exported |-> ExportState(f)]
        /\ UNCHANGED <<now, torVars, cacheVars, runVars, cascadeVars, scoringVars, crumbVars,
                       graphVars, banditVars, canonVars, fetchVars>>

NextOrder ==
    \/ Tick
    \/ Add
    \/ Pop
    \/ SaveAndLoad

SpecOrder == InitOrder /\ [][NextOrder]_vars

\* ------------------------------------------------------------------------
\* The link graph on its own: pages recorded, scores updated, store reopened
\* GraphStore.record_page(source_url, fetched_at=..., links=...); the caller
\* passes the time of the fetch, here the number of the call
GraphRecordPage ==
    /\ Observations(graph, GraphURLS) < MaxGraphPages
    /\ \E source \in GraphURLS, links \in LinkLists :
       \E fetched_at \in {Observations(graph, GraphURLS) + 1} :
       \E g \in {RecordPage(graph, source, fetched_at, links)} :
           /\ graph' = g
           /\ page_log' = [page_log EXCEPT ![source] =
                              [calls |-> @.calls + 1,
                               first |-> IF @.calls = 0 THEN fetched_at ELSE @.first,
                               last |-> fetched_at]]
           /\ graph_file' = NodeLinkData(g)
           /\ pagerank_dirty' = FALSE
           /\ link_log' = [e \in GraphURLS \X GraphURLS |->
                              IF e[1] = source THEN link_log[e] + LinksTo(links, e[2])
                              ELSE link_log[e]]
           /\ UNCHANGED <<now, settings, frontierVars, historyVars, torVars, cacheVars,
                          runVars, cascadeVars, scoringVars, crumbVars, persistVars,
                          score_log, banditVars, canonVars, fetchVars>>

\* GraphStore.update_score(url, score, action=...)
GraphUpdateScore ==
    /\ Len(score_log["a1"]) + Len(score_log["b1"]) < MaxScoreCalls
    /\ \E url \in GraphURLS, update \in ScoreUpdates :
       \E g \in {UpdateScore(graph, url, update)} :
           /\ graph' = g
           /\ graph_file' = IF graph.nodes[url].present THEN NodeLinkData(g) ELSE graph_file
           /\ score_log' = [score_log EXCEPT ![url] =
                               Append(@, [score |-> update.score, action |-> update.action,
                                          known |-> graph.nodes[url].present])]
           /\ UNCHANGED <<now, settings, frontierVars, historyVars, torVars, cacheVars,
                          runVars, cascadeVars, scoringVars, crumbVars, persistVars,
                          pagerank_dirty, link_log, page_log, banditVars, canonVars, fetchVars>>

\* the process ends and the next one builds its GraphStore: __init__ and _load
GraphReload ==
    /\ graph' = IF graph_file = NoGraphFile THEN EmptyGraph ELSE NodeLinkGraph(graph_file)
    /\ pagerank_dirty' = TRUE
    /\ UNCHANGED <<now, settings, frontierVars, historyVars, torVars, cacheVars, runVars,
                   cascadeVars, scoringVars, crumbVars, persistVars, graph_file,
                   link_log, score_log, page_log, banditVars, canonVars, fetchVars>>

InitGraph ==
    /\ Init
    /\ settings = DefaultSettings

NextGraph ==
    \/ GraphRecordPage
    \/ GraphUpdateScore
    \/ GraphReload

SpecGraph == InitGraph /\ [][NextGraph]_vars

\* ------------------------------------------------------------------------
\* The bandit scheduling of the frontier on its own
\* Frontier(settings=...)
BanditNew ==
    /\ \E s \in BanditSettingsChoices : bandit' = NewBandit(s)
    /\ last_bandit_pop' = NoBanditPop
    /\ UNCHANGED <<now, settings, frontierVars, historyVars, torVars, cacheVars, runVars,
                   cascadeVars, scoringVars, crumbVars, persistVars, graphVars, canonVars, fetchVars>>

\* Frontier.add(url) of a new URL of a host, without a priority
BanditAdd ==
    /\ bandit.order < MaxBanditJobs
    /\ \E host \in BanditHosts :
          /\ \A j \in bandit.heap : j.host # host
          /\ bandit' = [bandit EXCEPT
                 !.heap = @ \cup
                     {[priority |-> 0 - BanditPriority(bandit.settings, bandit.host_stats[host],
                                                       bandit.total_pulls),
                       order |-> bandit.order, host |-> host,
                       url |-> <<host, bandit.order>>, enqueued_at |-> bandit.total_pulls]},
                 !.order = @ + 1]
          /\ UNCHANGED last_bandit_pop
    /\ UNCHANGED <<now, settings, frontierVars, historyVars, torVars, cacheVars, runVars,
                   cascadeVars, scoringVars, crumbVars, persistVars, graphVars, canonVars, fetchVars>>

\* Frontier.pop(): every host has a token
BanditPop ==
    /\ bandit.heap # {}
    /\ \E job \in {HeapTop(bandit.heap)} :
          /\ bandit' = [bandit EXCEPT !.heap = @ \ {job}]
          /\ last_bandit_pop' =
                [called |-> TRUE, host |-> job.host,
                 first_added |-> (CHOOSE j \in bandit.heap :
                                     \A k \in bandit.heap : j.order <= k.order).host,
                 paired |-> /\ Cardinality(bandit.heap) = 2
                            /\ \A j \in bandit.heap : j.enqueued_at = bandit.total_pulls,
                 priorities |-> [h \in BanditHosts |->
                                    IF \E j \in bandit.heap : j.host = h
                                    THEN 0 - (CHOOSE j \in bandit.heap : j.host = h).priority
                                    ELSE 0],
                 host_stats |-> bandit.host_stats, total_pulls |-> bandit.total_pulls]
    /\ UNCHANGED <<now, settings, frontierVars, historyVars, torVars, cacheVars, runVars,
                   cascadeVars, scoringVars, crumbVars, persistVars, graphVars, canonVars, fetchVars>>

\* Frontier.record_feedback(url, score, action) for a URL of a host
BanditFeedback ==
    /\ \E host \in BanditHosts, reward \in Rewards :
          /\ bandit.host_stats[host].pulls < MaxPulls
          /\ bandit' = [bandit EXCEPT
                 !.host_stats[host] = [pulls |-> @.pulls + 1,
                                       reward_sum |-> @.reward_sum + Clamp01(reward)],
                 !.total_pulls = @ + 1]
    /\ UNCHANGED last_bandit_pop
    /\ UNCHANGED <<now, settings, frontierVars, historyVars, torVars, cacheVars, runVars,
                   cascadeVars, scoringVars, crumbVars, persistVars, graphVars, canonVars, fetchVars>>

InitBandit ==
    /\ Init
    /\ settings = DefaultSettings

NextBandit ==
    \/ BanditNew
    \/ BanditAdd
    \/ BanditPop
    \/ BanditFeedback

SpecBandit == InitBandit /\ [][NextBandit]_vars

\* ------------------------------------------------------------------------
\* URL canonicalisation on its own
\* canonicalize_url(url), the one call of a behaviour
Canonicalize ==
    /\ canon.url = NotRun
    /\ \E url \in CanonInputs :
          canon' = [url |-> url, once |-> canonicalize_url(url), twice |-> NotRun]
    /\ UNCHANGED <<now, settings, frontierVars, historyVars, torVars, cacheVars, runVars,
                   cascadeVars, scoringVars, crumbVars, persistVars, graphVars, banditVars,
                   fetchVars>>

\* canonicalize_url(canonical) of a URL the first call returned
CanonicalizeAgain ==
    /\ canon.once \notin {NotRun, Invalid}
    /\ canon.twice = NotRun
    /\ canon' = [canon EXCEPT !.twice = canonicalize_url(canon.once)]
    /\ UNCHANGED <<now, settings, frontierVars, historyVars, torVars, cacheVars, runVars,
                   cascadeVars, scoringVars, crumbVars, persistVars, graphVars, banditVars,
                   fetchVars>>

InitCanon ==
    /\ Init
    /\ settings = DefaultSettings

NextCanon ==
    \/ Canonicalize
    \/ CanonicalizeAgain

SpecCanon == InitCanon /\ [][NextCanon]_vars

\* the Fetcher on its own
InitFetch ==
    /\ Init
    /\ settings = DefaultSettings

NextFetch ==
    \/ FetcherNew
    \/ FetchCall
    \/ FetchAttempt
    \/ FetchTick

SpecFetch == InitFetch /\ [][NextFetch]_vars

\* ------------------------------------------------------------------------
\* Properties of the frontier
\* ------------------------------------------------------------------------

C2_TokenConservation ==
    /\ \A h \in Hosts :
          host_buckets[h].present =>
              /\ 0 <= host_buckets[h].tokens
              /\ host_buckets[h].tokens <= Capacity(settings)
    /\ (last_pop.url # None => last_pop.consumed = TokenUnit(settings))

\* a pop returned a URL and left a partly filled bucket behind
C2_Witness ==
    /\ last_pop.url # None
    /\ \E h \in Hosts :
          /\ host_buckets[h].present
          /\ 0 < host_buckets[h].tokens
          /\ host_buckets[h].tokens < Capacity(settings)

\* C3: pop() hands out a URL only after consuming one token of its host, and
\* with host_token_capacity = 1 and host_refill_seconds = R > 0 two pops that
\* return URLs of the same host are at least R apart.
C3_PopsSpacedByRefill ==
    last_pop.url # None =>
        /\ last_pop.consumed >= TokenUnit(settings)
        /\ (/\ settings.host_token_capacity = 1
            /\ settings.host_refill_seconds > 0
            /\ last_pop.gap # 0 - 1)
           => last_pop.gap >= settings.host_refill_seconds

\* a second URL of a host was popped under capacity 1, with feedback in between
C3_Witness ==
    /\ settings.host_token_capacity = 1
    /\ settings.host_refill_seconds > 0
    /\ last_pop.url # None
    /\ last_pop.gap >= settings.host_refill_seconds
    /\ Cardinality(inflight) = 1

\* the number of times a URL occurs in heap, delay heap and inflight map
Occurrences(url) ==
    Cardinality({j \in heap : j.url = url})
    + Cardinality({d \in delay_heap : d.job.url = url})
    + Cardinality({j \in inflight : j.url = url})

\* C4: no URL appears more than once across the main heap, the delay heap and
\* the inflight map taken together.
C4_NoDuplicateURL == \A url \in URLS : Occurrences(url) <= 1

\* every URL was added, one is in flight, one is deferred and one is queued
C4_Witness ==
    /\ seen = URLS
    /\ inflight # {}
    /\ delay_heap # {}
    /\ heap # {}

\* ------------------------------------------------------------------------
\* Properties of the runner and the run loop
\* ------------------------------------------------------------------------
IllegalKinds == {"illegal_pre", "illegal_post"}

\* C5: when the illegal-content scan matches in a step, at the scan of the raw
\* body or at the scan after extraction, the decision is skip with score 0.0, the step
\* writes no raw response, no excerpt and no graph update (so storage holds
\* nothing for the URL), and feedback is recorded with score 0.0.
C5_IllegalSkipsWithoutStorage ==
    last_step.kind \in IllegalKinds =>
        /\ last_step.action = "skip"
        /\ last_step.score = 0
        /\ ~last_step.raw
        /\ ~last_step.excerpt
        /\ ~last_step.graph
        /\ last_step.url \notin raw_store \cup excerpt_store \cup graph_scores
        /\ last_step.feedback = 0
        /\ last_step.url \notin {j.url : j \in inflight}

\* a step found illegal content after extraction while another page is stored
C5_Witness ==
    /\ last_step.kind = "illegal_post"
    /\ raw_store # {}

\* C6: no request of a step goes to a host that has an active illegal entry
\* in the blocklist at the time the request is sent.
C6_NoDispatchToIllegalHost ==
    ~last_step.dispatched_blocked

\* C8: a step that detects illegal content on a response routed through Tor,
\* at either scan, leaves the host in the blocklist with an illegal reason.
C8_IllegalHostListed ==
    (last_step.kind \in IllegalKinds /\ ShouldRoute(HostOf(last_step.url))) =>
        last_step.listed

\* C10: the URL a step passes to the fetcher is never one should_skip is true
\* for, the URLs a step skips are not fetched by it, no seed should_skip is true
\* for is enqueued, and the count of the seed_skipped event is the number of
\* such seeds.
C10_NoFetchOfCachedFailure ==
    /\ ~last_step.cached
    /\ last_step.url \notin last_step.skipped
    /\ last_seeds.called =>
          /\ last_seeds.enqueued_cached = {}
          /\ last_seeds.skipped_count = last_seeds.cached_seeds

\* a step skipped a popped URL and fetched another one, after a seeding that
\* logged seed_skipped
C10_Witness ==
    /\ last_step.skipped # {}
    /\ last_step.kind \in ResultKinds
    /\ last_seeds.skipped_count > 0

\* C11: when a step raises FetchHTTPError with status 404 for a URL, the
\* iteration ends with a 404 entry for the URL in the failure cache, the count
\* of its host in failure_hosts raised by one, the URL out of the inflight map
\* and its host in backoff, a url_404 event logged, and run() still in its loop.
C11_NotFoundHandled ==
    last_step.kind = "http404" =>
        /\ last_step.cache_status = 404
        /\ last_step.counted = 1
        /\ last_step.in_backoff
        /\ ~last_step.inflight
        /\ last_step.event = "url_404"
        /\ last_step.running

\* a 404 was handled after another page had been processed
C11_Witness ==
    /\ last_step.kind = "http404"
    /\ failure_hosts[HostOf(last_step.url)] = 1
    /\ loop.processed > 0

\* ------------------------------------------------------------------------
\* Properties of the Tor blocklist
\* ------------------------------------------------------------------------

\* C7: after record_illegal for a host, before_request for that host raises
\* TorBlockedHost at every later time, whatever record_success, record_failure
\* and record_illegal calls and reloads of the blocklist follow.
C7_IllegalBlockPermanent ==
    \A h \in illegal_hosts : EnsureNotBlocked(blocklist, h, now).raises = "TorBlockedHost"

\* ------------------------------------------------------------------------
\* Properties of the failure cache
\* ------------------------------------------------------------------------

\* C9 (as stated): with an expiry configured, should_skip(url) returns true if
\* and only if the cache holds an entry for url whose status is a skip status
\* and now - last_recorded_at < expiry_seconds.
C9_SkipIffFresh ==
    (last_skip.url # "" /\ expiry_seconds # NoExpiry) =>
        (last_skip.result <=>
            /\ last_skip.entry.present
            /\ last_skip.entry.status \in SkipStatuses
            /\ last_skip.at - last_skip.entry.last_recorded_at < expiry_seconds)

\* C9 (amended): should_skip(url) returns true if and only if the cache holds
\* an entry for url whose status is a skip status and either no expiry is
\* configured or now - last_recorded_at <= expiry_seconds; an entry with
\* last_recorded_at + expiry_seconds < now never makes it return true.
C9_SkipIffNotExpired ==
    last_skip.url # "" =>
        (last_skip.result <=>
            /\ last_skip.entry.present
            /\ last_skip.entry.status \in SkipStatuses
            /\ \/ expiry_seconds = NoExpiry
               \/ last_skip.at - last_skip.entry.last_recorded_at <= expiry_seconds)

\* should_skip found a 404 entry older than the expiry and answered false
C9_Witness ==
    /\ last_skip.url # ""
    /\ last_skip.entry.present
    /\ last_skip.entry.status \in SkipStatuses
    /\ expiry_seconds # NoExpiry
    /\ last_skip.at - last_skip.entry.last_recorded_at > expiry_seconds
    /\ ~last_skip.result

\* ------------------------------------------------------------------------
\* Properties of the triage cascade
\* the order TriageCascade.evaluate runs its stages in
StageOrder == <<"head", "snippet", "structure", "keywords", "simhash", "classifier", "prefilter">>

\* C12: evaluate records its stages in the order head, snippet, structure,
\* keywords, simhash, classifier, prefilter without leaving one out; no stage
\* is recorded after a stage that skipped; all seven are recorded when none
\* skipped; should_skip is true exactly when the last recorded stage has
\* status skip, and then final_reason is the reason of that stage
C12_StopsAtFirstSkip ==
    LET stages == last_decision.stages
        n == Len(stages)
    IN  n > 0 =>
            /\ n <= Len(StageOrder)
            /\ \A i \in 1..n : stages[i].stage = StageOrder[i]
            /\ \A i \in 1..(n - 1) : stages[i].status # "skip"
            /\ last_decision.should_skip <=> stages[n].status = "skip"
            /\ last_decision.should_skip =>
                   /\ stages[n].reason # NoReason
                   /\ last_decision.final_reason = stages[n].reason
            /\ ~last_decision.should_skip =>
                   /\ n = Len(StageOrder)
                   /\ last_decision.final_reason = NoReason

\* a duplicate fingerprint stopped the cascade at its fifth stage, after a
\* warning of the structure stage
C12_Witness ==
    /\ last_decision.should_skip
    /\ Len(last_decision.stages) = 5
    /\ last_decision.stages[3].status = "warn"
    /\ last_decision.stages[5].stage = "simhash"
    /\ last_decision.final_reason = <<"simhash-duplicate">>

\* C13: a step that ends in the cascade skipping the fetched page leaves the
\* raw store, the excerpt store and the link graph as they were, returns a
\* decision with action skip and score 0, and records frontier feedback for
\* the URL with score 0, action skip and cascade_skip = true
C13_CascadeSkipFrame ==
    [][(last_step' # last_step /\ last_step'.kind = "cascade_skip") =>
          /\ UNCHANGED <<raw_store, excerpt_store, graph_scores>>
          /\ last_step'.action = "skip"
          /\ last_step'.score = 0
          /\ last_step'.feedback = 0
          /\ last_step'.feedback_action = "skip"
          /\ last_step'.feedback_cascade = "true"
          /\ last_step'.url \notin {j.url : j \in inflight'}]_vars

\* the cascade skipped a page after another page had been stored
C13_Witness ==
    /\ last_step.kind = "cascade_skip"
    /\ last_step.feedback_cascade = "true"
    /\ raw_store # {}
    /\ last_step.url \notin raw_store

\* ------------------------------------------------------------------------
\* Properties of the scoring engine
\* C14 as stated: for every fused score and every configured pair of
\* thresholds decide returns llm iff score >= llm_gate, persist iff
\* persist <= score < llm_gate, and skip iff score < persist
C14_DecideRespectsThresholds ==
    last_scored.called =>
        /\ last_scored.action = "llm" <=> last_scored.score >= thresholds.llm_gate
        /\ last_scored.action = "persist" <=>
               (thresholds.persist <= last_scored.score /\ last_scored.score < thresholds.llm_gate)
        /\ last_scored.action = "skip" <=> last_scored.score < thresholds.persist

\* C14: for every fused score and every configured pair of thresholds decide
\* returns llm iff score >= llm_gate, persist iff persist <= score < llm_gate,
\* and skip iff the score is below both thresholds, which is score < persist
\* whenever persist <= llm_gate
C14_DecideRespectsGates ==
    last_scored.called =>
        /\ last_scored.action \in {"llm", "persist", "skip"}
        /\ last_scored.action = "llm" <=> last_scored.score >= thresholds.llm_gate
        /\ last_scored.action = "persist" <=>
               (thresholds.persist <= last_scored.score /\ last_scored.score < thresholds.llm_gate)
        /\ last_scored.action = "skip" <=>
               (last_scored.score < thresholds.persist /\ last_scored.score < thresholds.llm_gate)
        /\ thresholds.persist <= thresholds.llm_gate =>
               (last_scored.action = "skip" <=> last_scored.score < thresholds.persist)

\* a score between an llm gate and a higher persist threshold was decided
C14_Witness ==
    /\ last_scored.called
    /\ thresholds.llm_gate < thresholds.persist
    /\ thresholds.llm_gate <= last_scored.score
    /\ last_scored.score < thresholds.persist
    /\ last_scored.action = "llm"

C17_NoRepeatAfterRestart ==
    last_pop.url # None => last_pop.url \notin popped_before_restart

\* ------------------------------------------------------------------------
\* Properties of the link graph
\* ------------------------------------------------------------------------

\* C18: after any sequence of record_page calls, update_score calls and
\* reloads from disk, the source and the target of every edge are nodes of
\* the graph, and no edge has its source equal to its target.
C18_EdgesJoinNodes ==
    \A s \in GraphURLS, t \in GraphURLS :
        graph.edges[<<s, t>>].present =>
            /\ graph.nodes[s].present
            /\ graph.nodes[t].present
            /\ s # t

\* a store reopened from its file, with edges in both directions, after a
\* page that links to itself was recorded and a score was updated
C18_Witness ==
    /\ pagerank_dirty
    /\ graph.edges[<<"a1", "b1">>].present
    /\ graph.edges[<<"b1", "a1">>].present
    /\ link_log[<<"a1", "a1">>] > 0
    /\ graph.nodes["b1"].score_history # <<>>

\* the {"score", "action"} entries of logged update_score calls
ScoreEntries(log) ==
    [i \in 1..Len(log) |-> [score |-> log[i].score, action |-> log[i].action]]

\* the logged calls that were made while the URL was a node of the graph
CallsOnNode(log) == SelectSeq(log, LAMBDA c : c.known)

\* weight and anchor_texts of every edge
EdgesCountLinks ==
    \A s \in GraphURLS, t \in GraphURLS :
        LET edge == graph.edges[<<s, t>>] IN
        edge.present =>
            /\ edge.weight = link_log[<<s, t>>]
            /\ Len(edge.anchor_texts) <= GraphLimits.anchor_history
            /\ \A i \in 1..Len(edge.anchor_texts), j \in 1..Len(edge.anchor_texts) :
                   i # j => edge.anchor_texts[i] # edge.anchor_texts[j]

\* C19 (as stated): for every edge s -> t the weight equals the number of
\* times a link s -> t was recorded by record_page, its anchor_texts list has
\* at most anchor_history entries that are pairwise distinct, and every node's
\* score_history has at most score_history entries, namely the most recent
\* update_score calls for its URL in call order.
C19_HistoryOfAllCalls ==
    /\ EdgesCountLinks
    /\ \A u \in GraphURLS :
           graph.nodes[u].present =>
               /\ Len(graph.nodes[u].score_history) <= GraphLimits.score_history
               /\ graph.nodes[u].score_history =
                      LastN(ScoreEntries(score_log[u]), GraphLimits.score_history)

\* C19 (amended): as above, where the score_history of a node holds the most
\* recent of the update_score calls that were made while its URL was a node;
\* an update_score call for a URL that is not a node yet leaves no entry.
C19_HistoryOfCallsOnNode ==
    /\ EdgesCountLinks
    /\ \A u \in GraphURLS :
           graph.nodes[u].present =>
               /\ Len(graph.nodes[u].score_history) <= GraphLimits.score_history
               /\ graph.nodes[u].score_history =
                      LastN(ScoreEntries(CallsOnNode(score_log[u])),
                            GraphLimits.score_history)

\* a store reopened from its file in which a link was recorded four times
\* with more texts than an edge keeps, and a node was scored three times
C19_Witness ==
    /\ pagerank_dirty
    /\ graph.edges[<<"a1", "b1">>].weight = 4
    /\ graph.edges[<<"a1", "b1">>].anchor_texts = <<"z", "x">>
    /\ Len(CallsOnNode(score_log["a1"])) = 3
    /\ score_log["a1"][1].score # score_log["a1"][3].score
    /\ Len(graph.nodes["a1"].score_history) = 2

\* ------------------------------------------------------------------------
\* Properties of the run loop
\* ------------------------------------------------------------------------

\* C20: RunLoop.run returns only when the frontier is exhausted (no job left
\* in the main heap or the delay heap), a stop has been requested, or
\* max_pages pages have been processed.
C20_ReturnsOnlyWhenDone ==
    loop.phase = "returned" =>
        \/ heap = {} /\ delay_heap = {}
        \/ loop.stop_requested
        \/ loop.max_pages # NoLimit /\ loop.processed >= loop.max_pages

\* C29: after the first record_page(source, fetched_at = t) for a source URL
\* the node's first_seen equals t, and later record_page calls for the same
\* source leave first_seen unchanged while refreshing last_seen and
\* incrementing observations by one per call.
C29_FirstSeenKept ==
    \A u \in GraphURLS :
        page_log[u].calls > 0 =>
            /\ graph.nodes[u].first_seen = page_log[u].first
            /\ graph.nodes[u].last_seen = page_log[u].last
            /\ graph.nodes[u].observations = page_log[u].calls

RewardFavoursA ==
    /\ last_bandit_pop.called
    /\ last_bandit_pop.paired
    /\ last_bandit_pop.host_stats["a.test"].pulls = last_bandit_pop.host_stats["b.test"].pulls
    /\ last_bandit_pop.host_stats["a.test"].pulls > 0
    /\ last_bandit_pop.host_stats["a.test"].reward_sum > last_bandit_pop.host_stats["b.test"].reward_sum

\* the UCB score of b.test is below 1.0 and its weighted value, like that of
\* a.test, is inside [min_priority, max_priority]
ScoresNotSaturated ==
    LET s == bandit.settings
        pulls == last_bandit_pop.host_stats["b.test"].pulls
        ucb(h) == (last_bandit_pop.host_stats[h].reward_sum \div pulls)
                      + Exploration(s, last_bandit_pop.total_pulls, pulls)
    IN  /\ ucb("b.test") < 1000
        /\ (s.weight_bandit * Min(1000, ucb("a.test"))) \div 1000 > s.min_priority
        /\ (s.weight_bandit * ucb("b.test")) \div 1000 < s.max_priority

C27_Idempotent ==
    canon.twice # NotRun => canon.twice = canon.once

\* the second call raises ValueError for a URL the first call returned
C27_SecondCallRejects ==
    canon.twice # Invalid

\* C28: when an iteration fails with a FetchError that is not an HTTP error
\* (network error, robots disallow, Tor policy block), the loop applies
\* frontier.record_failure to the popped URL (its host is in backoff and the
\* URL is no longer in flight), logs an error event and goes on.
C28_FetchErrorRecorded ==
    last_step.kind \in {"neterr", "robots", "tor_blocked"} =>
        /\ last_step.in_backoff
        /\ ~last_step.inflight
        /\ last_step.event = "error"
        /\ last_step.running

\* C28, the part the loop does: the error event is logged and the loop goes on
C28_FetchErrorLogged ==
    last_step.kind \in {"neterr", "robots", "tor_blocked"} =>
        last_step.event = "error" /\ last_step.running

\* a network error left the URL in flight and its host without a backoff
C28_Witness ==
    /\ last_step.kind = "neterr"
    /\ last_step.inflight
    /\ ~last_step.in_backoff

\* ------------------------------------------------------------------------
\* Properties of the checkpoints and the telemetry of the run loop
\* C30: whenever an iteration of the run loop adds an entry to the failure
\* cache, a url_failure_cached event is appended to the telemetry in that
\* iteration.
C30_CacheGrowthLogged ==
    last_step.cache_grew => "url_failure_cached" \in last_step.events

\* C22: a checkpoint is written as soon as checkpoint_interval pages have been
\* processed since the previous one: after every iteration of the loop the
\* number of pages processed since the last checkpoint is below
\* checkpoint_interval, and the iteration that reaches the interval leaves the
\* saved frontier, failure cache, metrics and summary equal to the live ones.
C22_CheckpointAtInterval ==
    /\ loop.since_checkpoint < loop.checkpoint_interval
    /\ (loop.phase = "running" /\ last_step.checkpointed /\ ~loop.stop_requested) =>
           /\ loop.since_checkpoint = 0
           /\ metrics_file = metrics

\* the second page of a run with checkpoint_interval 2 caused a checkpoint
C22_Witness ==
    /\ loop.phase = "running"
    /\ loop.checkpoint_interval = 2
    /\ loop.processed = 2
    /\ last_step.checkpointed
    /\ metrics_file = metrics
    /\ metrics_file.pages_processed = 2

\* C21: after request_stop() the run loop starts no new step, takes a last
\* checkpoint (frontier, failure cache, metrics, summary) after the step that
\* was in progress, whose feedback is recorded, and run() returns.
C21_StopEndsRun ==
    /\ [][(loop.stop_requested /\ loop.phase = "running") =>
              /\ UNCHANGED <<last_step, telemetry, frontierVars, raw_store, excerpt_store,
                             graph_scores>>
              /\ loop'.processed = loop.processed]_vars
    /\ []((loop.phase = "returned" /\ loop.exit = "stop") =>
              /\ frontier_file = ExportState(FrontierObject)
              /\ entries_file = entries
              /\ metrics_file = metrics
              /\ summary_file = Summary(metrics, FrontierObject, entries)
              /\ (last_step.kind \in ResultKinds =>
                      ~last_step.inflight /\ last_step.feedback >= 0))
    /\ ((loop.stop_requested /\ loop.phase = "running") ~> loop.phase = "returned")

\* run() returned because of a stop request that came after a page had been
\* processed, and the last checkpoint holds that page
C21_Witness ==
    /\ loop.phase = "returned"
    /\ loop.exit = "stop"
    /\ last_step.kind \in ResultKinds
    /\ loop.processed = 1
    /\ loop.checkpoint_interval = 2
    /\ metrics_file = metrics
    /\ metrics_file.pages_processed = 1

\* C23: metrics.json is rewritten atomically at every checkpoint: a process
\* killed at any point of a checkpoint leaves metrics.json with the complete
\* previous content or the complete new content, never partial or empty.
C23_MetricsFileWhole ==
    metrics_file \notin TruncatedFiles

\* the pages counted by the telemetry
PageEvents == telemetry["page_skip"] + telemetry["page_persist"] + telemetry["page_llm"]

\* C24: every counter of the metrics can be recomputed from the telemetry:
\* after any sequence of steps, checkpoints, crashes and restarts on the same
\* run directory pages_processed is the number of page events, errors the
\* number of error events and actions[a] the number of page events with
\* action a.
C24_MetricsMatchTelemetry ==
    loop.phase \in {"new", "running", "returned"} =>
        /\ metrics.pages_processed = PageEvents
        /\ metrics.errors = telemetry["error"]
        /\ \A a \in Actions : metrics.actions[a] = telemetry[PageEvent(a)]

\* C24 for a process that is never killed
C24_MetricsMatchTelemetryWithoutCrash ==
    crashes = 0 => C24_MetricsMatchTelemetry

\* ------------------------------------------------------------------------
\* Properties of the frontier under the run loop
\* C36: at the end of every iteration of the run loop, whatever its outcome,
\* the frontier's inflight map is empty: every URL pop() returned in the
\* iteration has been removed by record_feedback or record_failure.
C36_InflightEmptyAfterIteration ==
    last_step.kind # "" => inflight = {}

\* C36, the outcomes that do report to the frontier: a page that went through
\* the runner, or an HTTP error, with no URL skipped on the way, leaves nothing
\* new in flight
C36_ReportedOutcomesLeaveNothing ==
    [][Step /\ last_step'.skipped = {}
            /\ (last_step'.kind \in ResultKinds \/ ReportsFailure(last_step'.kind))
          => inflight' \subseteq inflight]_vars

\* URLs left in flight by a skip of the failure cache
C36_SkippedStaysInFlight ==
    /\ last_step.skipped # {}
    /\ \E j \in inflight : j.url \in last_step.skipped

\* the URLs waiting in the main heap or the delay heap
PendingURLs == {j.url : j \in heap} \cup {d.job.url : d \in delay_heap}

\* C37: OddcrawlerRunner.step never adds a URL to the frontier: an iteration
\* leaves the seen-set and the order counter as they were and brings no URL
\* into the heaps, while the page it scored is handed to the link graph.
C37_StepAddsNothing ==
    [][Step => /\ seen' = seen
               /\ order' = order
               /\ PendingURLs' \subseteq PendingURLs
               /\ last_step'.kind = "scored" => last_step'.url \in graph_scores']_vars

\* a page was scored and handed to the link graph while one of its outbound
\* links is unknown to the frontier
C37_Witness ==
    /\ last_step.kind = "scored"
    /\ last_step.url \in graph_scores
    /\ PageLinks(last_step.url) \ seen # {}

\* ------------------------------------------------------------------------
\* Properties of the Fetcher
\* ------------------------------------------------------------------------

\* C31: Fetcher.fetch makes at most retries + 1 request attempts for a URL: it
\* returns on the first successful attempt, sleeps one backoff delay within
\* the configured backoff bounds between consecutive failed attempts, and
\* after the last failed attempt raises the last error instead of looping on.
C31_BoundedRetries ==
    LET low == Min(fetcher.backoff_bounds[1], fetcher.backoff_bounds[2])
        high == Max(fetcher.backoff_bounds[1], fetcher.backoff_bounds[2])
    IN  /\ fetcher.requests <= fetcher.retries + 1
        /\ fetcher.outcome = "ok" =>
              /\ ~fetcher.calling
              /\ fetcher.response = "ok"
              /\ Len(fetcher.backoffs) = fetcher.requests - 1
        /\ fetcher.calling =>
              /\ fetcher.requests <= fetcher.retries
              /\ Len(fetcher.backoffs) = fetcher.requests
        /\ fetcher.outcome \in FetchErrors =>
              /\ ~fetcher.calling
              /\ fetcher.requests = fetcher.retries + 1
              /\ fetcher.outcome = fetcher.response
              /\ Len(fetcher.backoffs) = fetcher.retries
        /\ \A i \in 1..Len(fetcher.backoffs) :
              low <= fetcher.backoffs[i] /\ fetcher.backoffs[i] <= high

\* a fetch that failed on every attempt of a Fetcher with two retries
C31_Witness ==
    /\ fetcher.retries = 2
    /\ fetcher.outcome \in FetchErrors
    /\ fetcher.requests = 3
    /\ Len(fetcher.backoffs) = 2


\* C32: with per_host_requests_per_minute = N > 0, any two page requests the
\* Fetcher sends to the same host are at least 60/N seconds apart, across
\* retries and across separate fetch calls.
C32_RequestsSpaced ==
    fetcher.min_interval > 0 /\ fetcher.gap # NoRequest =>
        fetcher.gap >= fetcher.min_interval

\* C32, the spacing the rate limit does keep: a request is sent at least
\* 60/N seconds after the last request to the host that succeeded
C32_SpacedAfterSuccess ==
    fetcher.min_interval > 0 /\ fetcher.since_success # NoRequest =>
        fetcher.since_success >= fetcher.min_interval

\* a retry sent sooner after a failed request than the interval allows
C32_RetryTooSoon ==
    /\ fetcher.min_interval > 0
    /\ fetcher.requests = 2
    /\ fetcher.gap # NoRequest
    /\ fetcher.gap < fetcher.min_interval

\* C38: while a fetch is routed through Tor, no request attempt is sent to a
\* host that has an active blocklist entry at the time of the attempt; this
\* holds for every attempt of the retry loop inside Fetcher.fetch.
C38_NoAttemptWhileBlocked ==
    ~fetcher.sent_blocked

\* C38, the first attempt: before_request lets no fetch start on a blocked host
C38_FirstAttemptNotBlocked ==
    fetcher.requests = 1 => ~fetcher.sent_blocked

\* a retry went to a host the failure before it had blocked
C38_RetryWhileBlocked ==
    /\ fetcher.using_tor
    /\ fetcher.requests >= 2
    /\ fetcher.sent_blocked


\* ------------------------------------------------------------------------
\* Properties of the blocks for failures of the TorConnector
\* ------------------------------------------------------------------------
\* before_request for a host raises a TorPolicyError from the moment a block
\* for failures begins until failure_block_minutes later
C33_BlockedUntilEnd ==
    \A h \in LoggedHosts :
        tor_log.block_end[h] # NoBlockEnd /\ now < tor_log.block_end[h] =>
            EnsureNotBlocked(blocklist, h, now).raises # ""

\* once that time has come, and unless the host was blocked again in the
\* meantime, before_request succeeds; a before_request that finds an expired
\* entry removes it from the blocklist and from the persisted blocklist
C33_ReleasedAfterEnd ==
    /\ \A h \in LoggedHosts :
          /\ tor_log.block_end[h] # NoBlockEnd
          /\ now >= tor_log.block_end[h]
          /\ blocklist[h].present => blocklist[h].blocked_until = tor_log.block_end[h]
          => EnsureNotBlocked(blocklist, h, now).raises = ""
    /\ tor_log.call.op = "before_request" /\ tor_log.call.was_expired =>
          /\ tor_log.call.raises = ""
          /\ ~blocklist[tor_log.call.host].present
          /\ ~blocklist_file[tor_log.call.host].present

C33_FailsOnUnblocked ==
    /\ tor_log.call.op = "record_failure"
    /\ ~tor_log.call.was_blocked
    /\ ~tor_log.call.blocked
    /\ tor_log.call.streak > TorSettings.max_failures_per_host


\* ------------------------------------------------------------------------
\* Properties of the fingerprint memory of the cascade
\* C34: with simhash enabled, the fingerprint memory holds exactly the
\* fingerprints of the evaluations that reached the simhash stage in this run;
\* an evaluation that reaches the simhash stage with a memorized fingerprint is
\* skipped with reason simhash-duplicate without running classifier or
\* prefilter; evaluating a fetch result that was evaluated before gives
\* should_skip = true.
C34_DuplicateSkipped ==
    cascade_config.simhash_enabled =>
        /\ simhash_seen = cascade_log.reached
        /\ cascade_log.knew =>
              /\ last_decision.should_skip
              /\ last_decision.final_reason = <<"simhash-duplicate">>
              /\ Len(last_decision.stages) = 5
        /\ cascade_log.again => last_decision.should_skip

\* a page that had passed the simhash stage was evaluated again and stopped
\* there as a duplicate
C34_Witness ==
    /\ cascade_config.simhash_enabled
    /\ cascade_log.again
    /\ cascade_log.knew
    /\ last_decision.final_reason = <<"simhash-duplicate">>


\* add() of a URL of the seen-set changes nothing
C35_AddOfSeenIsNoOp ==
    \A url \in seen, prio \in ExplicitPriorities(settings) \cup {NoPriority} :
        FrontierAdd(AddState, settings, now, url, prio) = AddState

\* C35: within the lifetime of one Frontier, pop never returns the same URL
\* twice, and add() of a URL that was ever added is a no-op even after
\* record_feedback or record_failure for it: the seen-set never loses a URL, a
\* URL enters the heaps only when it enters the seen-set, and the URL pop
\* returns (the one it puts in flight) leaves the heaps.
C35_NeverRetried ==
    /\ []C35_AddOfSeenIsNoOp
    /\ [][/\ seen \subseteq seen'
          /\ (PendingURLs' \ PendingURLs) \subseteq (seen' \ seen)
          /\ \A j \in inflight' \ inflight :
                /\ j.url \in PendingURLs
                /\ j.url \notin PendingURLs']_vars

\* a URL was handed out and reported, and pop has returned another one since
C35_Witness ==
    \E u \in seen :
        /\ u \notin PendingURLs
        /\ u \notin {j.url : j \in inflight}
        /\ last_pop.url \notin {None, u}
        /\ last_pop.url \in {j.url : j \in inflight}


\* ------------------------------------------------------------------------
\* Properties of the loop of Frontier.pop
\* C39: within one call of pop each pending job is deferred to the delay heap
\* at most once, for every frontier state and every value of the settings.
C39_DeferredAtMostOnce ==
    \A u \in URLS : pop_call.deferred[u] <= 1

\* C39: every call of pop terminates, returning a URL or none
C39_PopTerminates ==
    pop_call.active ~> ~pop_call.active

\* C39 for settings under which a host has a token to gain or a deferral
\* takes time
C39_DeferredAtMostOnceWithDelay ==
    (\/ settings.host_token_capacity >= 1
     \/ settings.host_refill_seconds > 0
     \/ settings.host_penalty_seconds > 0) => C39_DeferredAtMostOnce

\* a call of pop deferred a URL, found it ready at once and deferred it again
C39_DeferredAgain ==
    /\ pop_call.active
    /\ \E u \in URLS : pop_call.deferred[u] >= 2


\* ------------------------------------------------------------------------
\* Properties of a frontier that is polled
C40_NoJobLost ==
    seen \subseteq (PendingURLs \cup pop_call.returned)

\* C40: with host_token_capacity >= 1 and host_refill_seconds > 0, when pop
\* keeps being called as time advances, no further URLs are added and only
\* finitely many failures are recorded, no enqueued job is lost and every URL
\* that was enqueued is eventually returned by pop, also when it was deferred
\* to the delay heap on the way.
C40_EveryJobReturned ==
    /\ []C40_NoJobLost
    /\ \A u \in LiveURLS : (u \in PendingURLs) ~> (u \in pop_call.returned)

\* pop returned a URL it had deferred in two earlier calls
C40_Witness ==
    \E u \in URLS :
        /\ pop_call.url = u
        /\ u \in pop_call.returned
        /\ pop_call.deferred[u] >= 2
        /\ settings.host_token_capacity >= 1
        /\ settings.host_refill_seconds > 0

============================================================================
